---------------------------- MODULE Spec2Model ----------------------------
(* ciopfs: the case insensitive on purpose filesystem.                     *)
(* Names and paths are sequences of character codes (C strings without the *)
(* terminating NUL).  The backing store is an inode table whose directory  *)
(* inodes hold an ordered entry list (the order readdir(3) returns them).  *)
EXTENDS Integers, Sequences, FiniteSets, TLC

(***************************************************************************)
(* Characters and strings                                                  *)
(***************************************************************************)
SLASH == 47

DOT == 46

UPPER_A == 65

UPPER_Z == 90

CASE_OFFSET == 32

\* "." and ".." as d_name values, and the backing root map_path returns for "/"
DotName == <<DOT>>

DotDotName == <<DOT, DOT>>

\* the empty string: an absent attribute value (lgetxattr(...) <= 0)
NoName == <<>>

CIOPFS_ATTR_NAME == "user.filename"

\* another attribute key a caller may use through the generic interface; the
\* values stored under other keys are not part of the state
OTHER_ATTR_NAME == "user.other"

\* isupper(3) / tolower(3) in the C locale
isupper(c) == c >= UPPER_A /\ c <= UPPER_Z

\* a conversion that turns each letter into its other case
swapcase(c) ==
  IF isupper(c) THEN c + CASE_OFFSET
  ELSE IF isupper(c - CASE_OFFSET) THEN c - CASE_OFFSET
  ELSE c

tolower(c) == IF isupper(c) THEN c + CASE_OFFSET ELSE c

\* ascii.c: true iff some byte of s is upper case
str_contains_upper(s) == \E i \in 1..Len(s) : isupper(s[i])

\* ascii.c: the byte-wise lower-cased copy of src
str_fold(src) == [i \in 1..Len(src) |-> tolower(src[i])]

\* the result of a failed allocation (no string holds this code)
NULL == <<-1>>

\* a translation that drops the leading separator and keeps the case
map_path_keep_case(path, alloc) ==
  IF ~alloc THEN NULL
  ELSE IF Len(path) >= 1 /\ path[1] = SLASH
       THEN IF Len(path) = 1 THEN DotName ELSE Tail(path)
       ELSE path

\* a translation whose caller never sees an allocation fail
map_path_unchecked(path, alloc) ==
  IF Len(path) >= 1 /\ path[1] = SLASH
  THEN IF Len(path) = 1 THEN DotName ELSE str_fold(Tail(path))
  ELSE str_fold(path)

\* a translation that folds the first segment only
map_path_first_segment(path, alloc) ==
  IF ~alloc THEN NULL
  ELSE IF Len(path) >= 1 /\ path[1] = SLASH
       THEN IF Len(path) = 1 THEN DotName
            ELSE [i \in 1..(Len(path) - 1) |->
                    IF \E j \in 2..i : path[j] = SLASH THEN path[i + 1]
                    ELSE tolower(path[i + 1])]
       ELSE str_fold(path)

\* map_path: "/" is the backing root ".", anything else is folded as a whole
\* after the leading separator is dropped.  alloc = FALSE: malloc/strdup failed
map_path(path, alloc) ==
  IF ~alloc THEN NULL
  ELSE IF Len(path) >= 1 /\ path[1] = SLASH
       THEN IF Len(path) = 1 THEN DotName ELSE str_fold(Tail(path))
       ELSE str_fold(path)

\* strrchr(s, '/'): index of the last separator, 0 when there is none
RECURSIVE strrchr_slash(_, _)
strrchr_slash(s, i) ==
  IF i = 0 THEN 0
  ELSE IF s[i] = SLASH THEN i ELSE strrchr_slash(s, i - 1)

\* the filename ciopfs_set_orig_name_{fd,path} stores: the text after the last '/'
orig_filename(origpath) ==
  LET k == strrchr_slash(origpath, Len(origpath))
  IN  SubSeq(origpath, k + 1, Len(origpath))


(***************************************************************************)
(* Bounds and inputs                                                       *)
(***************************************************************************)
\* inodes of the backing store, the root directory included
MaxInodes == 3

\* directory streams (fi->fh of opendir) open at the same time
MaxHandles == 1

\* operations changing the entries of the backing store in one behaviour
MaxOps == 2

\* the names callers use: "A", "a", "Bb"
NameSet == {<<65>>, <<97>>, <<66, 98>>}

\* names an entry can get by a direct edit of the backing store
RawNameSet == NameSet \cup {str_fold(n) : n \in NameSet}

\* the directory name used as the first segment of a two-segment path: "A"
DirNameSet == {<<65>>}

RootPath == <<SLASH>>

\* names a caller uses below a subdirectory: "Bb"
SubNameSet == {<<66, 98>>}

\* virtual paths of objects other than the root: "/n" and "/d/n"
VPaths == {<<SLASH>> \o n : n \in NameSet}
          \cup {<<SLASH>> \o d \o <<SLASH>> \o n : d \in DirNameSet, n \in SubNameSet}

\* virtual paths of directories a caller lists
VDirPaths == {RootPath} \cup {<<SLASH>> \o d : d \in DirNameSet}

\* the target of the symbolic links callers make, "../../A": no path of the
\* model is deep enough for it to name an object of the store
LinkTarget == <<DOT, DOT, SLASH, DOT, DOT, SLASH, UPPER_A>>

\* attribute values a caller passes to setxattr: "X"
XattrValues == {<<88>>}

ROOT == 1

OK == "0"

VARIABLES
  ino,        \* backing store: inode -> [kind, attr, ents]
  xattr_ok,   \* whether the backing store supports extended attributes
  handles,    \* the directories with an open stream (fi->fh of opendir)
  nops,       \* operations that changed the store's entries so far
  last        \* the most recent operation and what it did

fsvars == <<ino, xattr_ok, handles, nops, last>>

Inodes == 1..MaxInodes

FreeInode == [kind |-> "free", attr |-> NoName, ents |-> <<>>]

(***************************************************************************)
(* The backing store (the kernel's side of the system calls)               *)
(***************************************************************************)
\* a path cut at its separators
RECURSIVE Split(_)
Split(p) ==
  LET ks == {i \in 1..Len(p) : p[i] = SLASH}
  IN  IF ks = {} THEN <<p>>
      ELSE LET k == CHOOSE i \in ks : \A j \in ks : i <= j
           IN  <<SubSeq(p, 1, k - 1)>> \o Split(SubSeq(p, k + 1, Len(p)))

\* index of the entry called name in directory d of table t, 0 if none
EntryIndex(t, d, name) ==
  LET is == {i \in 1..Len(t[d].ents) : t[d].ents[i].name = name}
  IN  IF is = {} THEN 0 ELSE CHOOSE i \in is : TRUE

\* path resolution from inode cur: an inode, 0 when a component is missing,
\* -1 when a component is not a directory
RECURSIVE Walk(_, _, _)
Walk(t, comps, cur) ==
  IF comps = <<>> THEN cur
  ELSE IF t[cur].kind = "lnk" THEN 0
  ELSE IF t[cur].kind # "dir" THEN -1
  ELSE IF Head(comps) = DotName THEN Walk(t, Tail(comps), cur)
  ELSE LET i == EntryIndex(t, cur, Head(comps))
       IN  IF i = 0 THEN 0
           ELSE Walk(t, Tail(comps), t[cur].ents[i].ino)

\* the daemon's working directory is the backing root (ciopfs_init: chdir)
Lookup(t, p) == Walk(t, Split(p), ROOT)

LookupErr(r) == IF r = -1 THEN "-ENOTDIR" ELSE "-ENOENT"

Front(s) == SubSeq(s, 1, Len(s) - 1)

Leaf(p) == Split(p)[Len(Split(p))]

ParentOf(t, p) == Walk(t, Front(Split(p)), ROOT)

\* number of directory entries naming inode i
NLink(t, i) ==
  Cardinality(UNION {{<<d, k>> : k \in {j \in 1..Len(t[d].ents) : t[d].ents[j].ino = i}} :
                       d \in Inodes})

FreeInodes(t) == {i \in Inodes : t[i].kind = "free"}

NewInode(t) == CHOOSE i \in FreeInodes(t) : \A j \in FreeInodes(t) : i <= j

AddEntry(t, d, name, i) ==
  [t EXCEPT ![d].ents = Append(@, [name |-> name, ino |-> i])]

RemoveAt(s, k) == SubSeq(s, 1, k - 1) \o SubSeq(s, k + 1, Len(s))

DropEntry(t, d, k) == [t EXCEPT ![d].ents = RemoveAt(@, k)]

\* an inode with no entry and no open handle left is freed
Reap(t, hs) ==
  [i \in Inodes |->
     IF /\ i # ROOT /\ t[i].kind # "free" /\ NLink(t, i) = 0
        /\ i \notin hs
     THEN FreeInode ELSE t[i]]

\* d is dir or lies below dir
RECURSIVE Below(_, _, _, _)
Below(t, dir, d, fuel) ==
  \/ d = dir
  \/ /\ fuel > 0
     /\ \E k \in 1..Len(t[dir].ents) :
          /\ t[t[dir].ents[k].ino].kind = "dir"
          /\ Below(t, t[dir].ents[k].ino, d, fuel - 1)


Fail(t, err) == [ret |-> err, t |-> t, obj |-> 0, fresh |-> FALSE]

Done(t, i, fresh) == [ret |-> OK, t |-> t, obj |-> i, fresh |-> fresh]

\* where a new entry of path p goes: [err, dir, leaf, idx]
Slot(t, p) ==
  LET par == ParentOf(t, p)
  IN  IF par < 1 THEN [err |-> LookupErr(par), dir |-> 0, leaf |-> NoName, idx |-> 0]
      ELSE IF t[par].kind # "dir"
      THEN [err |-> "-ENOTDIR", dir |-> 0, leaf |-> NoName, idx |-> 0]
      ELSE [err |-> OK, dir |-> par, leaf |-> Leaf(p),
            idx |-> EntryIndex(t, par, Leaf(p))]

NewObject(t, s, kind) ==
  LET i == NewInode(t)
  IN  Done(AddEntry([t EXCEPT ![i] = [FreeInode EXCEPT !.kind = kind]], s.dir, s.leaf, i),
           i, TRUE)

\* open(2) for writing; creat, excl: O_CREAT, O_EXCL.  A symbolic link is
\* followed, and the links of the model point into a missing directory.
sys_open(t, p, creat, excl) ==
  LET s == Slot(t, p)
  IN  IF s.err # OK THEN Fail(t, s.err)
      ELSE IF s.idx # 0
      THEN LET i == t[s.dir].ents[s.idx].ino
           IN  IF creat /\ excl THEN Fail(t, "-EEXIST")
               ELSE IF t[i].kind = "dir" THEN Fail(t, "-EISDIR")
               ELSE IF t[i].kind = "lnk" THEN Fail(t, "-ENOENT")
               ELSE Done(t, i, FALSE)
      ELSE IF ~creat THEN Fail(t, "-ENOENT")
      ELSE IF FreeInodes(t) = {} THEN Fail(t, "-ENOSPC")
      ELSE NewObject(t, s, "reg")

sys_mkdir(t, p) ==
  LET s == Slot(t, p)
  IN  IF s.err # OK THEN Fail(t, s.err)
      ELSE IF s.idx # 0 THEN Fail(t, "-EEXIST")
      ELSE IF FreeInodes(t) = {} THEN Fail(t, "-ENOSPC")
      ELSE NewObject(t, s, "dir")

\* mkfifo(3), mknod(2) and symlink(2): a new entry of the given kind
sys_mknod(t, p, kind) ==
  LET s == Slot(t, p)
  IN  IF s.err # OK THEN Fail(t, s.err)
      ELSE IF s.idx # 0 THEN Fail(t, "-EEXIST")
      ELSE IF FreeInodes(t) = {} THEN Fail(t, "-ENOSPC")
      ELSE NewObject(t, s, kind)

\* the target is kept as given; the model does not resolve it
sys_symlink(t, from, p) == sys_mknod(t, p, "lnk")

sys_unlink(t, p) ==
  LET s == Slot(t, p)
  IN  IF s.err # OK THEN Fail(t, s.err)
      ELSE IF s.idx = 0 THEN Fail(t, "-ENOENT")
      ELSE LET i == t[s.dir].ents[s.idx].ino
           IN  IF t[i].kind = "dir" THEN Fail(t, "-EISDIR")
               ELSE Done(DropEntry(t, s.dir, s.idx), i, FALSE)

sys_rmdir(t, p) ==
  LET s == Slot(t, p)
  IN  IF s.err # OK THEN Fail(t, s.err)
      ELSE IF s.idx = 0 THEN Fail(t, "-ENOENT")
      ELSE LET i == t[s.dir].ents[s.idx].ino
           IN  IF t[i].kind # "dir" THEN Fail(t, "-ENOTDIR")
               ELSE IF t[i].ents # <<>> THEN Fail(t, "-ENOTEMPTY")
               ELSE Done(DropEntry(t, s.dir, s.idx), i, FALSE)

sys_link(t, f, p) ==
  LET i == Lookup(t, f)
      s == Slot(t, p)
  IN  IF i < 1 THEN Fail(t, LookupErr(i))
      ELSE IF s.err # OK THEN Fail(t, s.err)
      ELSE IF t[i].kind = "dir" THEN Fail(t, "-EPERM")
      ELSE IF s.idx # 0 THEN Fail(t, "-EEXIST")
      ELSE Done(AddEntry(t, s.dir, s.leaf, i), i, FALSE)

\* rename(2): two links of one object are left alone; an existing target is
\* replaced when the kinds agree (a directory only when empty)
sys_rename(t, f, p) ==
  LET sf == Slot(t, f)
      sp == Slot(t, p)
  IN  IF sf.err # OK THEN Fail(t, sf.err)
      ELSE IF sf.idx = 0 THEN Fail(t, "-ENOENT")
      ELSE IF sp.err # OK THEN Fail(t, sp.err)
      ELSE LET i == t[sf.dir].ents[sf.idx].ino
               j == IF sp.idx = 0 THEN 0 ELSE t[sp.dir].ents[sp.idx].ino
               moved == AddEntry(DropEntry(t, sf.dir, sf.idx), sp.dir, sp.leaf, i)
           IN  IF t[i].kind = "dir" /\ Below(t, i, sp.dir, MaxInodes)
               THEN Fail(t, "-EINVAL")
               ELSE IF j = 0 THEN Done(moved, i, FALSE)
               ELSE IF j = i THEN Done(t, i, FALSE)
               ELSE IF t[i].kind = "dir" /\ t[j].kind # "dir" THEN Fail(t, "-ENOTDIR")
               ELSE IF t[i].kind # "dir" /\ t[j].kind = "dir" THEN Fail(t, "-EISDIR")
               ELSE IF t[j].ents # <<>> THEN Fail(t, "-ENOTEMPTY")
               ELSE LET t1 == DropEntry(t, sp.dir, sp.idx)
                        k == EntryIndex(t1, sf.dir, sf.leaf)
                    IN  Done(AddEntry(DropEntry(t1, sf.dir, k), sp.dir, sp.leaf, i),
                             i, FALSE)

\* {f,l}setxattr on inode i; xok: the store supports extended attributes.
\* User attributes are kept for regular files and directories only; on a
\* symbolic link or a special node the call fails with EPERM.
sys_setxattr(t, i, name, value, xok) ==
  IF ~xok THEN Fail(t, "-ENOTSUP")
  ELSE IF t[i].kind \notin {"reg", "dir"} THEN Fail(t, "-EPERM")
  ELSE IF name = CIOPFS_ATTR_NAME THEN Done([t EXCEPT ![i].attr = value], i, FALSE)
  ELSE Done(t, i, FALSE)

\* lgetxattr of the Original Name key: the value, NoName when there is none
\* (a result <= 0)
sys_getxattr(t, i, xok) == IF ~xok THEN NoName ELSE t[i].attr

\* lremovexattr; present: an attribute is stored under a key other than the
\* Original Name's
sys_removexattr(t, i, name, present, xok) ==
  IF ~xok THEN Fail(t, "-ENOTSUP")
  ELSE IF name = CIOPFS_ATTR_NAME
  THEN IF t[i].attr = NoName THEN Fail(t, "-ENODATA")
       ELSE Done([t EXCEPT ![i].attr = NoName], i, FALSE)
  ELSE IF present THEN Done(t, i, FALSE) ELSE Fail(t, "-ENODATA")

(***************************************************************************)
(* Name registry                                                           *)
(***************************************************************************)
ciopfs_get_orig_name(t, path, xok) ==
  LET i == Lookup(t, path)
  IN  IF i < 1 THEN NoName ELSE sys_getxattr(t, i, xok)

ciopfs_set_orig_name_fd(t, fd, origpath, xok) ==
  sys_setxattr(t, fd, CIOPFS_ATTR_NAME, orig_filename(origpath), xok)

ciopfs_set_orig_name_path(t, path, origpath, xok) ==
  LET i == Lookup(t, path)
  IN  IF i < 1 THEN Fail(t, LookupErr(i))
      ELSE sys_setxattr(t, i, CIOPFS_ATTR_NAME, orig_filename(origpath), xok)

ciopfs_remove_orig_name(t, path, xok) ==
  LET i == Lookup(t, path)
  IN  IF i < 1 THEN Fail(t, LookupErr(i))
      ELSE sys_removexattr(t, i, CIOPFS_ATTR_NAME, FALSE, xok)


(***************************************************************************)
(* Handlers.  alloc: the allocations of map_path succeed.  Each returns    *)
(* [ret, t, obj, fresh]: the result, the backing store afterwards, the     *)
(* object acted on and whether the call made it.                           *)
(***************************************************************************)
PATH_MAX == 4096

\* the file types of the mode argument of ciopfs_mknod
ModeSet == {"S_IFREG", "S_IFIFO", "S_IFCHR"}

\* the registry call a handler made: none
NoCall == "none"

\* a handler that hands the result of its registry call to the caller
registry_result_returned(o, n) ==
  [ret |-> n.ret, t |-> n.t, obj |-> o.obj, fresh |-> o.fresh, reg |-> n.ret]

\* a handler that succeeded with backing result o and registry call n, whose
\* result it throws away
Named(o, n) ==
  [ret |-> OK, t |-> n.t, obj |-> o.obj, fresh |-> o.fresh, reg |-> n.ret]

\* a handler that succeeded with backing result o and made no registry call
Unnamed(o) ==
  [ret |-> OK, t |-> o.t, obj |-> o.obj, fresh |-> o.fresh, reg |-> NoCall]

ciopfs_create(t, path, excl, alloc, xok) ==
  LET p == map_path(path, alloc)
  IN  IF p = NULL THEN Fail(t, "-ENOMEM")
      ELSE LET o == sys_open(t, p, TRUE, excl)
           IN  IF o.ret # OK THEN Fail(t, o.ret)
               ELSE Named(o, ciopfs_set_orig_name_fd(o.t, o.obj, path, xok))

\* ciopfs_open: the name is recorded through the descriptor when the flags
\* hold O_CREAT, whether or not the call made the file
ciopfs_open(t, path, creat, excl, alloc, xok) ==
  LET p == map_path(path, alloc)
  IN  IF p = NULL THEN Fail(t, "-ENOMEM")
      ELSE LET o == sys_open(t, p, creat, excl)
           IN  IF o.ret # OK THEN Fail(t, o.ret)
               ELSE IF creat
               THEN Named(o, ciopfs_set_orig_name_fd(o.t, o.obj, path, xok))
               ELSE Unnamed(o)

\* ciopfs_mknod: a regular file is made by open(p, O_CREAT | O_EXCL |
\* O_WRONLY) and named through the descriptor; a FIFO is made by mkfifo and
\* any other node by mknod, and neither branch calls the registry
ciopfs_mknod(t, path, mode, alloc, xok) ==
  LET p == map_path(path, alloc)
  IN  IF p = NULL THEN Fail(t, "-ENOMEM")
      ELSE IF mode = "S_IFREG"
      THEN LET o == sys_open(t, p, TRUE, TRUE)
           IN  IF o.ret # OK THEN Fail(t, o.ret)
               ELSE Named(o, ciopfs_set_orig_name_fd(o.t, o.obj, path, xok))
      ELSE LET o == sys_mknod(t, p, IF mode = "S_IFIFO" THEN "fifo" ELSE "chr")
           IN  IF o.ret # OK THEN Fail(t, o.ret) ELSE Unnamed(o)

\* a mkdir handler that records the caller's name whatever mkdir returned
mkdir_records_always(t, path, alloc, xok) ==
  LET p == map_path(path, alloc)
  IN  IF p = NULL THEN Fail(t, "-ENOMEM")
      ELSE LET o == sys_mkdir(t, p)
           IN  IF o.ret # OK
               THEN Fail(ciopfs_set_orig_name_path(t, p, path, xok).t, o.ret)
               ELSE Named(o, ciopfs_set_orig_name_path(o.t, p, path, xok))

ciopfs_mkdir(t, path, alloc, xok) ==
  LET p == map_path(path, alloc)
  IN  IF p = NULL THEN Fail(t, "-ENOMEM")
      ELSE LET o == sys_mkdir(t, p)
           IN  IF o.ret # OK THEN Fail(t, o.ret)
               ELSE Named(o, ciopfs_set_orig_name_path(o.t, p, path, xok))

\* ciopfs_symlink: the link is made at the folded path of to, its target is
\* from as the caller gave it
ciopfs_symlink(t, from, to, alloc, xok) ==
  LET p == map_path(to, alloc)
  IN  IF p = NULL THEN Fail(t, "-ENOMEM")
      ELSE LET o == sys_symlink(t, from, p)
           IN  IF o.ret # OK THEN Fail(t, o.ret)
               ELSE Named(o, ciopfs_set_orig_name_path(o.t, p, to, xok))

ciopfs_unlink(t, path, alloc) ==
  LET p == map_path(path, alloc)
  IN  IF p = NULL THEN Fail(t, "-ENOMEM") ELSE sys_unlink(t, p)

ciopfs_rmdir(t, path, alloc) ==
  LET p == map_path(path, alloc)
  IN  IF p = NULL THEN Fail(t, "-ENOMEM") ELSE sys_rmdir(t, p)

ciopfs_rename(t, from, to, allocf, alloct, xok) ==
  LET f == map_path(from, allocf)
      p == map_path(to, alloct)
  IN  IF f = NULL \/ p = NULL THEN Fail(t, "-ENOMEM")
      ELSE LET o == sys_rename(t, f, p)
           IN  IF o.ret # OK THEN Fail(t, o.ret)
               ELSE Named(o, ciopfs_set_orig_name_path(o.t, p, to, xok))

ciopfs_link(t, from, to, allocf, alloct, xok) ==
  LET f == map_path(from, allocf)
      p == map_path(to, alloct)
  IN  IF f = NULL \/ p = NULL THEN Fail(t, "-ENOMEM")
      ELSE LET o == sys_link(t, f, p)
           IN  IF o.ret # OK THEN Fail(t, o.ret)
               ELSE Named(o, ciopfs_set_orig_name_path(o.t, p, to, xok))

\* a generic setxattr that hands every key to the backing store
setxattr_any_key(t, path, name, value, alloc, xok) ==
  LET p == map_path(path, alloc)
  IN  IF p = NULL THEN Fail(t, "-ENOMEM")
      ELSE LET i == Lookup(t, p)
           IN  IF i < 1 THEN Fail(t, LookupErr(i))
               ELSE sys_setxattr(t, i, name, value, xok)

ciopfs_setxattr(t, path, name, value, alloc, xok) ==
  IF name = CIOPFS_ATTR_NAME THEN Fail(t, "-EPERM")
  ELSE LET p == map_path(path, alloc)
       IN  IF p = NULL THEN Fail(t, "-ENOMEM")
           ELSE LET i == Lookup(t, p)
                IN  IF i < 1 THEN Fail(t, LookupErr(i))
                    ELSE sys_setxattr(t, i, name, value, xok)

ciopfs_removexattr(t, path, name, present, alloc, xok) ==
  IF name = CIOPFS_ATTR_NAME THEN Fail(t, "-EPERM")
  ELSE LET p == map_path(path, alloc)
       IN  IF p = NULL THEN Fail(t, "-ENOMEM")
           ELSE LET i == Lookup(t, p)
                IN  IF i < 1 THEN Fail(t, LookupErr(i))
                    ELSE sys_removexattr(t, i, name, present, xok)

\* ciopfs_getattr: lstat of the mapped path
ciopfs_getattr(t, path, alloc) ==
  LET p == map_path(path, alloc)
  IN  IF p = NULL THEN Fail(t, "-ENOMEM")
      ELSE LET i == Lookup(t, p)
           IN  IF i < 1 THEN Fail(t, LookupErr(i)) ELSE Done(t, i, FALSE)

\* opendir(3) of the mapped path: the directory the handle is bound to
ciopfs_opendir(t, path, alloc) ==
  LET p == map_path(path, alloc)
  IN  IF p = NULL THEN Fail(t, "-ENOMEM")
      ELSE LET i == Lookup(t, p)
           IN  IF i < 1 THEN Fail(t, LookupErr(i))
               ELSE IF t[i].kind = "lnk" THEN Fail(t, "-ENOENT")
               ELSE IF t[i].kind # "dir" THEN Fail(t, "-ENOTDIR")
               ELSE Done(t, i, FALSE)

(***************************************************************************)
(* Directory listing                                                       *)
(***************************************************************************)
\* what readdir(3) returns for directory d, in order: ".", "..", the entries
DirStream(t, d) ==
  <<[name |-> DotName, ino |-> d], [name |-> DotDotName, ino |-> d]>> \o t[d].ents

\* what the loop records for one entry handed to the filler
Emitted(raw, dname, looked, attr, rm, t) ==
  [rec |-> [raw |-> raw, dname |-> dname, looked |-> looked, attr |-> attr,
            rm |-> rm],
   t |-> t]

\* a loop body that reports a stale name and leaves it stored
readdir_named_keep_stale(t, dnamebuf, d_name, attrbuf, foldok, xok) ==
  IF attrbuf # NoName /\ foldok /\ str_fold(attrbuf) = d_name
  THEN Emitted(d_name, attrbuf, TRUE, attrbuf, FALSE, t)
  ELSE Emitted(d_name, d_name, TRUE, attrbuf, attrbuf # NoName, t)

\* a loop body that removes every recorded name it finds
readdir_named_drop_all(t, dnamebuf, d_name, attrbuf, foldok, xok) ==
  IF attrbuf # NoName
  THEN Emitted(d_name, IF foldok /\ str_fold(attrbuf) = d_name THEN attrbuf ELSE d_name,
               TRUE, attrbuf, TRUE, ciopfs_remove_orig_name(t, dnamebuf, xok).t)
  ELSE Emitted(d_name, d_name, TRUE, NoName, FALSE, t)

\* The body of the while loop of ciopfs_readdir for an entry other than "."
\* and "..": attrbuf is what ciopfs_get_orig_name(dnamebuf) returned, and
\* foldok says whether the allocation of str_fold(attrbuf) succeeds.  The
\* recorded name is handed over when its fold is d_name; otherwise d_name is
\* handed over and the recorded name is removed.
readdir_named(t, dnamebuf, d_name, attrbuf, foldok, xok) ==
  IF attrbuf # NoName
  THEN IF foldok /\ str_fold(attrbuf) = d_name
       THEN Emitted(d_name, attrbuf, TRUE, attrbuf, FALSE, t)
       ELSE Emitted(d_name, d_name, TRUE, attrbuf, TRUE,
                    ciopfs_remove_orig_name(t, dnamebuf, xok).t)
  ELSE Emitted(d_name, d_name, TRUE, NoName, FALSE, t)

\* One entry of the while loop, for a d_name without upper case: the name
\* handed to the filler and the registry calls made for it.
readdir_entry(t, p, d_name, foldok, xok) ==
  IF d_name = DotName \/ d_name = DotDotName
  THEN Emitted(d_name, d_name, FALSE, NoName, FALSE, t)
  ELSE readdir_named(t, p \o <<SLASH>> \o d_name, d_name,
                     ciopfs_get_orig_name(t, p \o <<SLASH>> \o d_name, xok),
                     foldok, xok)

\* an entry as the filler sees it: off is telldir after the entry, taken is
\* whether the filler had room for it
Item(rec, pos, room) ==
  [raw |-> rec.raw, dname |-> rec.dname, looked |-> rec.looked, attr |-> rec.attr,
   rm |-> rec.rm, off |-> pos + 1, taken |-> room > 0]

Cons(item, r) == [out |-> <<item>> \o r.out, t |-> r.t]

RECURSIVE readdir_loop(_, _, _, _, _, _, _)

\* the filler is called for entry e; when it reports a full buffer the loop ends
readdir_fill(d, p, pos, room, foldok, xok, e) ==
  IF room = 0 THEN [out |-> <<Item(e.rec, pos, room)>>, t |-> e.t]
  ELSE Cons(Item(e.rec, pos, room),
            readdir_loop(e.t, d, p, pos + 1, room - 1,
                         foldok \/ e.rec.attr # NoName, xok))

\* an iteration that hands entries with upper case to the filler as well
readdir_next_no_skip(t, d, p, pos, room, foldok, xok, d_name) ==
  readdir_fill(d, p, pos, room, foldok, xok, readdir_entry(t, p, d_name, foldok, xok))

\* one iteration: an entry whose name has upper case is skipped
readdir_next(t, d, p, pos, room, foldok, xok, d_name) ==
  IF str_contains_upper(d_name)
  THEN readdir_loop(t, d, p, pos + 1, room, foldok, xok)
  ELSE readdir_fill(d, p, pos, room, foldok, xok,
                    readdir_entry(t, p, d_name, foldok, xok))

\* The while loop from stream position pos (entries read so far).  room: how
\* many entries the filler still takes before it reports a full buffer.
\* foldok = FALSE: the first str_fold(attrbuf) of the call fails.
\* [out: the entries handed to the filler, t]
readdir_loop(t, d, p, pos, room, foldok, xok) ==
  IF pos >= Len(DirStream(t, d)) THEN [out |-> <<>>, t |-> t]
  ELSE readdir_next(t, d, p, pos, room, foldok, xok, DirStream(t, d)[pos + 1].name)

\* the checks of ciopfs_readdir before the loop; p is map_path(path)
readdir_mapped(t, p, dp, offset, room, foldok, xok) ==
  IF p = NULL THEN [out |-> <<>>, t |-> t, ret |-> "-ENOMEM"]
  ELSE IF Len(p) > PATH_MAX THEN [out |-> <<>>, t |-> t, ret |-> "-ENAMETOOLONG"]
  ELSE IF dp = 0 THEN [out |-> <<>>, t |-> t, ret |-> "-EBADF"]
  ELSE [ret |-> OK] @@ readdir_loop(t, dp, p, offset, room, foldok, xok)

\* ciopfs_readdir on the stream of directory dp under the handler's path
ciopfs_readdir(t, path, dp, offset, room, alloc, foldok, xok) ==
  readdir_mapped(t, map_path(path, alloc), dp, offset, room, foldok, xok)

(***************************************************************************)
(* The privilege context: process identity and the calls that change it    *)
(***************************************************************************)
\* worker threads the dispatcher may run
MaxThreads == 2

\* operations the dispatcher hands out in one run
MaxServed == 3

SPACE == 32

NEWLINE == 10

DIGIT_0 == 48

DIGIT_9 == 57

\* the second argument of setregid / setreuid: leave that id as it is
KEEP == -1

\* The text that follows "\nGroups:\t" in /proc/<pid>/task/<pid>/status;
\* NoStatus: the file cannot be opened or read, or holds no such key.
NoStatus == <<>>

\* the callers of the filesystem: uid, gid and status text
\* "7 8 \n", "\n" (no supplementary group), no status file
Callers ==
  <<[uid |-> 5, gid |-> 6, status |-> <<55, SPACE, 56, SPACE, NEWLINE>>],
    [uid |-> 8, gid |-> 9, status |-> <<NEWLINE>>],
    [uid |-> 8, gid |-> 9, status |-> NoStatus]>>

\* get_groups, first loop over the line: the number of ' ' before '\n'
RECURSIVE count_spaces(_, _)
count_spaces(s, i) ==
  IF i > Len(s) \/ s[i] = NEWLINE THEN 0
  ELSE (IF s[i] = SPACE THEN 1 ELSE 0) + count_spaces(s, i + 1)

\* get_groups, second loop: decimal digits accumulate in grp, ' ' stores it
RECURSIVE parse_gids(_, _, _)
parse_gids(s, i, grp) ==
  IF i > Len(s) \/ s[i] = NEWLINE THEN <<>>
  ELSE IF s[i] >= DIGIT_0 /\ s[i] <= DIGIT_9
       THEN parse_gids(s, i + 1, grp * 10 + s[i] - DIGIT_0)
  ELSE IF s[i] = SPACE THEN <<grp>> \o parse_gids(s, i + 1, 0)
  ELSE parse_gids(s, i + 1, grp)

\* get_groups: the gids of the caller, <<>> (return value 0) when the status
\* cannot be read, lists no group or the array cannot be allocated
get_groups(status, alloc) ==
  IF status = NoStatus THEN <<>>
  ELSE IF count_spaces(status, 1) = 0 THEN <<>>
  ELSE IF ~alloc THEN <<>>
  ELSE parse_gids(status, 1, 0)

Range(f) == {f[i] : i \in DOMAIN f}

\* the identity the daemon starts with: root, or an unprivileged user
DaemonId(root) ==
  IF root
  THEN [ruid |-> 0, euid |-> 0, suid |-> 0, rgid |-> 0, egid |-> 0, sgid |-> 0,
        groups |-> {0}]
  ELSE [ruid |-> 1, euid |-> 1, suid |-> 1, rgid |-> 1, egid |-> 1, sgid |-> 1,
        groups |-> {1}]

\* the kernel's identity calls on credentials c; ok = FALSE: the call fails
\* for a reason of its own (no memory for the new credentials)
setgroups(c, gids, ok) ==
  IF ok /\ c.euid = 0 THEN [c EXCEPT !.groups = Range(gids)] ELSE c

setegid(c, egid, ok) ==
  IF ok /\ (c.euid = 0 \/ egid \in {c.rgid, c.egid, c.sgid})
  THEN [c EXCEPT !.egid = egid] ELSE c

seteuid(c, euid, ok) ==
  IF ok /\ (c.euid = 0 \/ euid \in {c.ruid, c.euid, c.suid})
  THEN [c EXCEPT !.euid = euid] ELSE c

\* setregid(rgid, -1): a new real gid makes the saved gid the effective one
setregid(c, rgid, egid, ok) ==
  IF ok /\ egid = KEEP /\ (c.euid = 0 \/ rgid \in {c.rgid, c.egid})
  THEN [c EXCEPT !.rgid = rgid, !.sgid = c.egid] ELSE c

\* setreuid(ruid, -1): a new real uid makes the saved uid the effective one
setreuid(c, ruid, euid, ok) ==
  IF ok /\ euid = KEEP /\ (c.euid = 0 \/ ruid \in {c.ruid, c.euid})
  THEN [c EXCEPT !.ruid = ruid, !.suid = c.euid] ELSE c

setuid(c, uid, ok) ==
  IF ~ok THEN c
  ELSE IF c.euid = 0 THEN [c EXCEPT !.ruid = uid, !.euid = uid, !.suid = uid]
  ELSE IF uid \in {c.ruid, c.suid} THEN [c EXCEPT !.euid = uid]
  ELSE c

setgid(c, gid, ok) ==
  IF ~ok THEN c
  ELSE IF c.euid = 0 THEN [c EXCEPT !.rgid = gid, !.egid = gid, !.sgid = gid]
  ELSE IF gid \in {c.rgid, c.sgid} THEN [c EXCEPT !.egid = gid]
  ELSE c

\* the identity call of enter that fails, if any
IdFail == {"none", "setgroups", "setgid", "setuid"}

\* if ((ngroups = get_groups(...))) setgroups(ngroups, groups);
install_groups(c, gids, fail) ==
  IF Len(gids) > 0 THEN setgroups(c, gids, fail # "setgroups") ELSE c

\* an enter that takes the caller's uid first, then the gid, then the groups
enter_uid_first(c, st, caller, fail) ==
  IF ~st \/ c.ruid # 0 THEN c
  ELSE install_groups(setegid(seteuid(c, caller.uid, fail # "setuid"),
                              caller.gid, fail # "setgid"),
                      get_groups(caller.status, TRUE), fail)

\* enter_user_context_effective; st is single_threaded.  The results of the
\* identity calls are not looked at.
enter_user_context_effective(c, st, caller, fail) ==
  IF ~st \/ c.ruid # 0 THEN c
  ELSE seteuid(setegid(install_groups(c, get_groups(caller.status, TRUE), fail),
                       caller.gid, fail # "setgid"),
               caller.uid, fail # "setuid")

\* setegid(getgid())
restore_egid(c) == setegid(c, c.rgid, TRUE)

\* leave_user_context_effective: seteuid(getuid()); setegid(getgid());
leave_user_context_effective(c, st) ==
  IF ~st \/ c.ruid # 0 THEN c
  ELSE restore_egid(seteuid(c, c.ruid, TRUE))

enter_user_context_real(c, st, caller, fail) ==
  IF ~st \/ c.euid # 0 THEN c
  ELSE setreuid(setregid(install_groups(c, get_groups(caller.status, TRUE), fail),
                         caller.gid, KEEP, fail # "setgid"),
                caller.uid, KEEP, fail # "setuid")

\* setgid(getegid())
restore_gid(c) == setgid(c, c.egid, TRUE)

\* leave_user_context_real: setuid(geteuid()); setgid(getegid());
leave_user_context_real(c, st) ==
  IF ~st \/ c.euid # 0 THEN c
  ELSE restore_gid(setuid(c, c.euid, TRUE))

\* the handlers of the privilege model and the bracket each one uses
Handlers == {"getattr", "mknod", "access", "readdir"}

Flavour(h) ==
  IF h = "access" THEN "real"
  ELSE IF h = "readdir" THEN "none"
  ELSE "effective"

\* the enter called by handler h
enter(h, c, st, caller, fail) ==
  IF Flavour(h) = "effective" THEN enter_user_context_effective(c, st, caller, fail)
  ELSE IF Flavour(h) = "real" THEN enter_user_context_real(c, st, caller, fail)
  ELSE c

\* the leave called by handler h
leave(h, c, st) ==
  IF Flavour(h) = "effective" THEN leave_user_context_effective(c, st)
  ELSE IF Flavour(h) = "real" THEN leave_user_context_real(c, st)
  ELSE c

\* whether the enter of handler h gets past its guard
enter_fires(h, c, st) ==
  /\ st
  /\ \/ Flavour(h) = "effective" /\ c.ruid = 0
     \/ Flavour(h) = "real" /\ c.euid = 0

\* a handler that returns the error of its backing call at once
return_on_error(h, bret) ==
  IF Flavour(h) = "none" \/ bret # OK THEN "return" ELSE "leave"

\* What a handler does after its backing call: every handler with a bracket
\* calls leave, whether res is -1 or not, and returns afterwards.
after_backing_call(h, bret) ==
  IF Flavour(h) = "none" THEN "return" ELSE "leave"

\* ciopfs_opt_parse: single_threaded stays false unless "allow_other" is
\* among the options, and then is (getuid() == 0)
ciopfs_opt_parse(allow_other, uid) == allow_other /\ uid = 0

\* arguments that reach fuse_main without the "-s" main adds
args_as_given(user_s, st) == user_s

\* main: whether "-s" is among the arguments of fuse_main; user_s: the user
\* gave it on the command line
fuse_args_single(user_s, st) == user_s \/ st

VARIABLES
  cfg,              \* how the daemon was started: [root, allow_other, user_s]
  single_threaded,  \* the flag ciopfs_opt_parse sets
  id,               \* the credentials of the daemon process
  thr,              \* the worker threads: where each is in its handler
  served            \* operations handed out so far

pvars == <<cfg, single_threaded, id, thr, served>>

Threads == 1..MaxThreads

NoId ==
  [ruid |-> -1, euid |-> -1, suid |-> -1, rgid |-> -1, egid |-> -1, sgid |-> -1,
   groups |-> {}]

IdleThread ==
  [pc |-> "idle", h |-> "none", caller |-> 0, fired |-> FALSE, failed |-> FALSE,
   enters |-> 0, leaves |-> 0, callid |-> NoId, bret |-> OK]

(***************************************************************************)
(* Case folders.  ciopfs.c includes one of unicode-glib.c, unicode-icu.c   *)
(* and ascii.c.  Under the Unicode policies a name is its sequence of code *)
(* points, under the ASCII policy its sequence of bytes.                   *)
(***************************************************************************)
\* stands for a byte sequence that is no UTF-8 text
INVALID_CHAR == -2

\* general category Lu: 'A', 'I', U+1D400 MATHEMATICAL BOLD CAPITAL A.  Not
\* upper case: 'a', U+00DF SHARP S (Ll), U+01C5 (Lt, a title-case letter)
g_unichar_isupper(c) == c \in {65, 73, 119808}

u_isupper(c) == g_unichar_isupper(c)

\* full case folding of one code point; special_i: the mappings for dotted
\* and dotless i (U_FOLD_CASE_EXCLUDE_SPECIAL_I), where 'I' folds to U+0131
CaseFold(c, special_i) ==
  IF c = 65 THEN <<97>>
  ELSE IF c = 73 THEN (IF special_i THEN <<305>> ELSE <<105>>)
  ELSE IF c = 223 THEN <<115, 115>>
  ELSE IF c = 453 THEN <<454>>
  ELSE <<c>>

RECURSIVE u_strFoldCase(_, _)
u_strFoldCase(s, special_i) ==
  IF s = <<>> THEN <<>>
  ELSE CaseFold(Head(s), special_i) \o u_strFoldCase(Tail(s), special_i)

\* unicode-glib.c, on valid UTF-8
glib_str_contains_upper(s) == \E i \in 1..Len(s) : g_unichar_isupper(s[i])

glib_str_fold(s) == u_strFoldCase(s, FALSE)

\* unicode-icu.c: the conversion fails on invalid text
utf8_to_utf16(str) ==
  IF \E i \in 1..Len(str) : str[i] = INVALID_CHAR THEN NULL ELSE str

\* the UTF-16 units of s, the terminating NUL included
RECURSIVE U16Length(_)
U16Length(s) ==
  IF s = <<>> THEN 1 ELSE (IF Head(s) > 65535 THEN 2 ELSE 1) + U16Length(Tail(s))

icu_str_contains_upper(s) ==
  LET ustr == utf8_to_utf16(s)
  IN  IF ustr = NULL THEN TRUE ELSE \E i \in 1..Len(ustr) : u_isupper(ustr[i])

\* the text is folded in place, into the buffer that holds the source: a
\* result that is longer fails with U_BUFFER_OVERFLOW_ERROR
icu_str_fold(s) ==
  LET ustr == utf8_to_utf16(s)
  IN  IF ustr = NULL THEN NULL
      ELSE IF U16Length(u_strFoldCase(ustr, TRUE)) > U16Length(ustr) THEN NULL
      ELSE u_strFoldCase(ustr, TRUE)

\* the Case Folder the build selected
contains_upper_of(policy, s) ==
  IF policy = "glib" THEN glib_str_contains_upper(s)
  ELSE IF policy = "icu" THEN icu_str_contains_upper(s)
  ELSE str_contains_upper(s)

fold_of(policy, s) ==
  IF policy = "glib" THEN glib_str_fold(s)
  ELSE IF policy = "icu" THEN icu_str_fold(s)
  ELSE str_fold(s)

\* longest name handed to a Case Folder
MaxName == 2

\* the names handed to a Case Folder: bytes around the upper-case range and
\* one byte above 127 for the ASCII policy, code points for the others, and
\* invalid text for ICU
FoldNames(policy) ==
  LET alphabet == IF policy = "ascii" THEN {64, 65, 90, 91, 97, 223}
                  ELSE {65, 73, 97, 223, 453, 119808}
      texts == UNION {[1..n -> alphabet] : n \in 0..MaxName}
  IN  IF policy = "icu" THEN texts \cup {<<INVALID_CHAR>>, <<97, INVALID_CHAR>>}
      ELSE texts

VARIABLES
  fold        \* one name on its way through the Case Folder

\* no name is being folded
NoFold ==
  [policy |-> "ascii", name |-> <<>>, pc |-> "idle", upper |-> FALSE,
   out |-> <<>>, again |-> <<>>, upper_out |-> FALSE]

\* the room the filler has at the start of one call of ciopfs_readdir
MaxRoom == 2

\* the listings under way at the same time
Listings == {1, 2}

VARIABLES
  lst         \* listings taken step by step: the streams and the callers

\* a listing that is not under way
NoCursor ==
  [pc |-> "off", offset |-> 0, room |-> 0, de |-> 0, attrbuf |-> NoName, got |-> <<>>,
   calls |-> 0]

\* no listing is under way
NoList == [dirp |-> [n \in Listings |-> 0], cur |-> [n \in Listings |-> NoCursor],
           whole |-> <<>>]

\* a stream that ignores seekdir
seekdir_ignored(loc, offset) == loc

\* seekdir(dp, offset): the next readdir returns the entry after offset
seekdir(loc, offset) == offset

\* every listing reads the stream of the first one
fh_shared(n) == 1

\* fi->fh: the stream ciopfs_opendir opened for listing n
fi_fh(n) == n

(***************************************************************************)
(* State machine of the filesystem: one action per handler                 *)
(***************************************************************************)
\* a filler room that no listing of the model exhausts
Unlimited == 2 + MaxOps

\* The record of one operation: its name, its result, the object acted on,
\* the attribute key of an xattr call, and whether a listing removed a
\* recorded name.
Rec(op, xname, r) ==
  [op |-> op, xname |-> xname, ret |-> r.ret, obj |-> r.obj, rm |-> FALSE]

NoRec == Rec("init", "", Fail(<<>>, OK))

\* last keeps the calls that succeeded and those refused with -EPERM; any
\* other failed call leaves the record of the call before it
Audited(r) == r.ret = OK \/ r.ret = "-EPERM"

\* map_path fails whatever the path is: one path stands for all of them
PathInputs == (VPaths \X {TRUE}) \cup ({CHOOSE q \in VPaths : TRUE} \X {FALSE})

PairInputs ==
  (VPaths \X VPaths \X {TRUE} \X {TRUE})
  \cup {<<CHOOSE q \in VPaths : TRUE, CHOOSE q \in VPaths : TRUE, af, at>> :
          af \in BOOLEAN, at \in BOOLEAN}

\* The directory the filesystem is mounted over: empty, or holding the file
\* "a" that an earlier mount created as "A".
EmptyStore ==
  [i \in Inodes |-> IF i = ROOT THEN [FreeInode EXCEPT !.kind = "dir"] ELSE FreeInode]

InitStores ==
  {EmptyStore, ciopfs_create(EmptyStore, <<SLASH, UPPER_A>>, TRUE, TRUE, TRUE).t}

\* no request of the privilege model is under way
PrivIdle ==
  /\ cfg = [root |-> FALSE, allow_other |-> FALSE, user_s |-> FALSE]
  /\ single_threaded = FALSE
  /\ id = DaemonId(FALSE)
  /\ thr = [w \in Threads |-> IdleThread]
  /\ served = 0

Init ==
  /\ xattr_ok \in BOOLEAN
  /\ ino \in IF xattr_ok THEN InitStores ELSE {EmptyStore}
  /\ PrivIdle
  /\ fold = NoFold
  /\ lst = NoList
  /\ handles = {}
  /\ nops = 0
  /\ last = NoRec

\* the state after handler result r, recorded as rec
Finish(r, rec) ==
  /\ ino' = Reap(r.t, handles)
  /\ last' = IF Audited(r) THEN rec ELSE last
  /\ UNCHANGED <<xattr_ok, handles>>
  /\ UNCHANGED <<pvars, fold, lst>>

\* a handler that changes the entries of the store uses up the budget
Changing(r, rec) ==
  /\ nops < MaxOps
  /\ nops' = IF r.ret = OK THEN nops + 1 ELSE nops
  /\ Finish(r, rec)

Create ==
  \E in \in PathInputs, excl \in BOOLEAN :
    LET r == ciopfs_create(ino, in[1], excl, in[2], xattr_ok)
    IN  Changing(r, Rec("create", "", r))

\* O_EXCL comes with O_CREAT
Open ==
  \E in \in PathInputs, flags \in {<<FALSE, FALSE>>, <<TRUE, FALSE>>, <<TRUE, TRUE>>} :
    LET r == ciopfs_open(ino, in[1], flags[1], flags[2], in[2], xattr_ok)
    IN  Changing(r, Rec("open", "", r))

\* a device node goes the way of a FIFO, in this handler and in all others
Mknod ==
  \E in \in PathInputs, mode \in ModeSet \ {"S_IFCHR"} :
    LET r == ciopfs_mknod(ino, in[1], mode, in[2], xattr_ok)
    IN  Changing(r, Rec("mknod", "", r))

Symlink ==
  \E in \in PathInputs :
    LET r == ciopfs_symlink(ino, LinkTarget, in[1], in[2], xattr_ok)
    IN  Changing(r, Rec("symlink", "", r))

Mkdir ==
  \E in \in PathInputs :
    LET r == ciopfs_mkdir(ino, in[1], in[2], xattr_ok)
    IN  Changing(r, Rec("mkdir", "", r))

Unlink ==
  \E in \in PathInputs :
    LET r == ciopfs_unlink(ino, in[1], in[2])
    IN  Changing(r, Rec("unlink", "", r))

Rmdir ==
  \E in \in PathInputs :
    LET r == ciopfs_rmdir(ino, in[1], in[2])
    IN  Changing(r, Rec("rmdir", "", r))

Rename ==
  \E in \in PairInputs :
    LET r == ciopfs_rename(ino, in[1], in[2], in[3], in[4], xattr_ok)
    IN  Changing(r, Rec("rename", "", r))

Link ==
  \E in \in PairInputs :
    LET r == ciopfs_link(ino, in[1], in[2], in[3], in[4], xattr_ok)
    IN  Changing(r, Rec("link", "", r))

Setxattr ==
  \E in \in PathInputs, name \in {CIOPFS_ATTR_NAME, OTHER_ATTR_NAME},
     value \in XattrValues :
    LET r == ciopfs_setxattr(ino, in[1], name, value, in[2], xattr_ok)
    IN  /\ Finish(r, Rec("setxattr", name, [r EXCEPT !.obj = 0]))
        /\ UNCHANGED nops

Removexattr ==
  \E in \in PathInputs, name \in {CIOPFS_ATTR_NAME, OTHER_ATTR_NAME},
     present \in BOOLEAN :
    LET r == ciopfs_removexattr(ino, in[1], name, present, in[2], xattr_ok)
    IN  /\ Finish(r, Rec("removexattr", name, [r EXCEPT !.obj = 0]))
        /\ UNCHANGED nops

\* a successful ciopfs_opendir leaves an open stream in fi->fh
Opendir ==
  \E path \in VDirPaths :
    LET r == ciopfs_opendir(ino, path, TRUE)
    IN  /\ r.ret = OK
        /\ Cardinality(handles \cup {r.obj}) <= MaxHandles
        /\ handles' = handles \cup {r.obj}
        /\ UNCHANGED <<ino, xattr_ok, nops, last>>
        /\ UNCHANGED <<pvars, fold, lst>>

\* ciopfs_releasedir: closedir
Releasedir ==
  \E dp \in handles :
    /\ handles' = handles \ {dp}
    /\ ino' = Reap(ino, handles')
    /\ UNCHANGED <<xattr_ok, nops, last>>
    /\ UNCHANGED <<pvars, fold, lst>>

\* The calls of a listing, <<offset, room, alloc, foldok>>: a whole listing
\* from the start of the stream, with or without a failing allocation, or
\* one entry at a time from any position of the stream.
ReaddirInputs(len) ==
  {<<0, Unlimited, TRUE, TRUE>>, <<0, Unlimited, FALSE, TRUE>>,
   <<0, Unlimited, TRUE, FALSE>>}
  \cup {<<off, 1, TRUE, TRUE>> : off \in 0..len}

\* what a call of ciopfs_readdir leaves behind
ReaddirDone(r, dp) ==
  Finish([ret |-> r.ret, t |-> r.t, obj |-> dp, fresh |-> FALSE],
         [op |-> "readdir", xname |-> "", ret |-> r.ret, obj |-> dp,
          rm |-> \E k \in 1..Len(r.out) : r.out[k].rm])

\* ciopfs_readdir on an open stream, under the path the dispatcher passes
Readdir ==
  \E dp \in handles, path \in VDirPaths :
    \E in \in ReaddirInputs(Len(DirStream(ino, dp))) :
      /\ ReaddirDone(ciopfs_readdir(ino, path, dp, in[1], in[2], in[3], in[4],
                                    xattr_ok), dp)
      /\ UNCHANGED nops

\* an entry renamed directly in the backing store, behind the filesystem
ExtRename ==
  \E d \in Inodes, name \in RawNameSet :
    /\ ino[d].kind = "dir"
    /\ EntryIndex(ino, d, name) = 0
    /\ \E k \in 1..Len(ino[d].ents) :
         LET t1 == [ino EXCEPT ![d].ents[k].name = name]
             res == [ret |-> OK, t |-> t1, obj |-> ino[d].ents[k].ino, fresh |-> FALSE]
         IN  Changing(res, Rec("ext_rename", "", res))

Next ==
  \/ Create \/ Open \/ Mknod \/ Mkdir \/ Symlink \/ Unlink \/ Rmdir \/ Rename \/ Link
  \/ Setxattr \/ Removexattr \/ Opendir \/ Readdir \/ Releasedir \/ ExtRename

vars == <<fsvars, pvars, fold, lst>>

Spec == Init /\ [][Next]_vars

(***************************************************************************)
(* State machine of the privilege context: the steps of a handler          *)
(***************************************************************************)
\* the backing store plays no part in this state machine
StoreIdle ==
  /\ ino = EmptyStore
  /\ xattr_ok = TRUE
  /\ handles = {}
  /\ nops = 0
  /\ last = NoRec

\* the daemon is started: main parses the options
PrivInit ==
  /\ cfg \in [root : BOOLEAN, allow_other : BOOLEAN, user_s : BOOLEAN]
  /\ single_threaded = ciopfs_opt_parse(cfg.allow_other, DaemonId(cfg.root).ruid)
  /\ id = DaemonId(cfg.root)
  /\ thr = [w \in Threads |-> IdleThread]
  /\ served = 0
  /\ StoreIdle
  /\ fold = NoFold
  /\ lst = NoList

\* results of the bracketed backing call
BackingResults == {OK, "-EACCES"}

\* The dispatcher hands a request to an idle worker; with "-s" among the
\* arguments of fuse_main it waits until no other request is in flight.
Dispatch(w) ==
  /\ thr[w].pc = "idle"
  /\ served < MaxServed
  /\ fuse_args_single(cfg.user_s, single_threaded) =>
       \A u \in Threads : thr[u].pc = "idle"
  /\ \E h \in Handlers, k \in DOMAIN Callers :
       thr' = [thr EXCEPT ![w] = [IdleThread EXCEPT !.pc = "start", !.h = h,
                                                    !.caller = k]]
  /\ served' = served + 1
  /\ UNCHANGED <<cfg, single_threaded, id>>
  /\ UNCHANGED <<fsvars, fold, lst>>

\* map_path returns NULL: the handler returns -ENOMEM before any enter
NoMem(w) ==
  /\ thr[w].pc = "start"
  /\ thr' = [thr EXCEPT ![w].pc = "ret", ![w].bret = "-ENOMEM"]
  /\ UNCHANGED <<cfg, single_threaded, id, served>>
  /\ UNCHANGED <<fsvars, fold, lst>>

\* what the worker notes when its handler has called enter
Entered(w, c) ==
  [thr EXCEPT ![w].pc = "entered",
              ![w].fired = enter_fires(thr[w].h, id, single_threaded),
              ![w].failed = (c # enter(thr[w].h, id, single_threaded,
                                       Callers[thr[w].caller], "none")),
              ![w].enters = IF Flavour(thr[w].h) = "none" THEN 0 ELSE 1]

\* the handler calls its enter; one of the identity calls may fail
Enter(w) ==
  /\ thr[w].pc = "start"
  /\ \E fail \in IdFail :
       /\ id' = enter(thr[w].h, id, single_threaded, Callers[thr[w].caller], fail)
       /\ thr' = Entered(w, id')
  /\ UNCHANGED <<cfg, single_threaded, served>>
  /\ UNCHANGED <<fsvars, fold, lst>>

\* the backing call runs under the credentials of the process
Call(w) ==
  /\ thr[w].pc = "entered"
  /\ \E bret \in BackingResults :
       thr' = [thr EXCEPT ![w].pc = "called", ![w].callid = id, ![w].bret = bret]
  /\ UNCHANGED <<cfg, single_threaded, id, served>>
  /\ UNCHANGED <<fsvars, fold, lst>>

\* the handler goes on after the backing call: leave, then the return
Leave(w) ==
  /\ thr[w].pc = "called"
  /\ IF after_backing_call(thr[w].h, thr[w].bret) = "leave"
     THEN /\ id' = leave(thr[w].h, id, single_threaded)
          /\ thr' = [thr EXCEPT ![w].pc = "ret", ![w].leaves = @ + 1]
     ELSE /\ id' = id
          /\ thr' = [thr EXCEPT ![w].pc = "ret"]
  /\ UNCHANGED <<cfg, single_threaded, served>>
  /\ UNCHANGED <<fsvars, fold, lst>>

\* the handler returns and the worker is idle again
Return(w) ==
  /\ thr[w].pc = "ret"
  /\ thr' = [thr EXCEPT ![w] = IdleThread]
  /\ UNCHANGED <<cfg, single_threaded, id, served>>
  /\ UNCHANGED <<fsvars, fold, lst>>

PrivNext ==
  \E w \in Threads :
    \/ Dispatch(w) \/ NoMem(w) \/ Enter(w) \/ Call(w) \/ Leave(w) \/ Return(w)

SpecPriv == PrivInit /\ [][PrivNext]_vars

(***************************************************************************)
(* State machine of a Case Folder: one name is tested, folded and, as the  *)
(* backing name it has become, tested and folded again                     *)
(***************************************************************************)
FoldInit ==
  /\ \E policy \in {"ascii", "glib", "icu"} :
       \E name \in FoldNames(policy) :
         fold = [NoFold EXCEPT !.policy = policy, !.name = name, !.pc = "given"]
  /\ StoreIdle
  /\ PrivIdle
  /\ lst = NoList

\* readdir asks whether the raw name is canonical
FoldTest ==
  /\ fold.pc = "given"
  /\ fold' = [fold EXCEPT !.pc = "tested",
                          !.upper = contains_upper_of(fold.policy, fold.name)]
  /\ UNCHANGED <<fsvars, pvars, lst>>

\* map_path and readdir fold a name
FoldApply ==
  /\ fold.pc = "tested"
  /\ fold' = [fold EXCEPT !.pc = "folded", !.out = fold_of(fold.policy, fold.name)]
  /\ UNCHANGED <<fsvars, pvars, lst>>

\* the folded name is a name of the backing store: it is tested and folded
\* in its turn
FoldAgain ==
  /\ fold.pc = "folded"
  /\ fold.out # NULL
  /\ fold' = [fold EXCEPT !.pc = "refolded",
                          !.again = fold_of(fold.policy, fold.out),
                          !.upper_out = contains_upper_of(fold.policy, fold.out)]
  /\ UNCHANGED <<fsvars, pvars, lst>>

FoldNext == FoldTest \/ FoldApply \/ FoldAgain

SpecFold == FoldInit /\ [][FoldNext]_vars


(***************************************************************************)
(* State machine of listings taken step by step: the dispatcher calls      *)
(* ciopfs_readdir with the offset of the last entry the filler accepted,   *)
(* and the loop of each call advances one readdir(3) at a time             *)
(***************************************************************************)
\* The root directory being listed: the file 2 under the entry e2, possibly
\* under a second link "bb", and the file 3 under the entry e3; a2 and a3
\* are the names recorded for them.  An entry "A" comes from a direct edit
\* of the backing store.
ListStore(e2, second, e3, a2, a3) ==
  [i \in Inodes |->
     IF i = ROOT
     THEN [FreeInode EXCEPT !.kind = "dir",
             !.ents = <<[name |-> e2, ino |-> 2], [name |-> e3, ino |-> 3]>>
                      \o (IF second THEN <<[name |-> <<98, 98>>, ino |-> 2]>> ELSE <<>>)]
     ELSE IF i = 2 THEN [FreeInode EXCEPT !.kind = "reg", !.attr = a2]
     ELSE IF i = 3 THEN [FreeInode EXCEPT !.kind = "reg", !.attr = a3]
     ELSE FreeInode]

ListStores(xok) ==
  {ListStore(e[1], second, e[2], a2, a3) :
     e \in {<<<<97>>, <<65>>>>, <<<<65>>, <<97>>>>, <<<<97>>, <<99>>>>},
     second \in BOOLEAN,
     a2 \in IF xok THEN {<<65>>, <<66, 98>>} ELSE {NoName},
     a3 \in IF xok THEN {NoName, <<65>>} ELSE {NoName}}

\* one listing or two are opened on the root; whole is what one call with an
\* unlimited filler hands over for the store as it is now
ListInit ==
  /\ xattr_ok \in BOOLEAN
  /\ ino \in ListStores(xattr_ok)
  /\ handles = {ROOT}
  /\ nops = 0
  /\ last = NoRec
  /\ PrivIdle
  /\ fold = NoFold
  /\ \E on \in {{1}, Listings} :
       lst = [dirp |-> [n \in Listings |-> 0],
              cur |-> [n \in Listings |->
                         IF n \in on THEN [NoCursor EXCEPT !.pc = "idle"] ELSE NoCursor],
              whole |-> ciopfs_readdir(ino, RootPath, ROOT, 0, 2 + MaxInodes,
                                       TRUE, TRUE, xattr_ok).out]

\* what a step of a listing leaves alone
ListFrame == UNCHANGED <<xattr_ok, handles, nops, last, pvars, fold>>

\* ciopfs_readdir is called with the offset of the last accepted entry:
\* seekdir; room is the number of entries the filler takes in this call
ListCall(n) ==
  /\ lst.cur[n].pc = "idle"
  /\ \E room \in 1..MaxRoom :
       lst' = [lst EXCEPT
                 !.dirp[fi_fh(n)] = seekdir(lst.dirp[fi_fh(n)], lst.cur[n].offset),
                 !.cur[n].pc = "loop", !.cur[n].room = room,
                 !.cur[n].calls = @ + 1]
  /\ UNCHANGED ino
  /\ ListFrame

\* readdir(3) and the part of the loop before the name is chosen: the end
\* of the stream ends the call and the listing, an entry with upper case is
\* skipped, and for any other entry but "." and ".." the recorded name is
\* fetched
ListRead(n) ==
  /\ lst.cur[n].pc = "loop"
  /\ LET loc == lst.dirp[fi_fh(n)]
         stream == DirStream(ino, ROOT)
     IN  IF loc >= Len(stream)
         THEN lst' = [lst EXCEPT !.cur[n].pc = "done"]
         ELSE lst' = [lst EXCEPT
                        !.dirp[fi_fh(n)] = loc + 1,
                        !.cur[n].de = loc + 1,
                        !.cur[n].pc = IF str_contains_upper(stream[loc + 1].name)
                                      THEN "loop" ELSE "read",
                        !.cur[n].attrbuf =
                          IF \/ str_contains_upper(stream[loc + 1].name)
                             \/ stream[loc + 1].name \in {DotName, DotDotName}
                          THEN NoName
                          ELSE ciopfs_get_orig_name(
                                 ino, <<DOT, SLASH>> \o stream[loc + 1].name, xattr_ok)]
  /\ UNCHANGED ino
  /\ ListFrame

\* the rest of the loop body: the name is chosen, a stale recorded name is
\* removed, and the filler is called with telldir(dp); a full buffer ends
\* the call
ListEmit(n) ==
  /\ lst.cur[n].pc = "read"
  /\ LET d_name == DirStream(ino, ROOT)[lst.cur[n].de].name
         e == IF d_name \in {DotName, DotDotName}
              THEN Emitted(d_name, d_name, FALSE, NoName, FALSE, ino)
              ELSE readdir_named(ino, <<DOT, SLASH>> \o d_name, d_name,
                                 lst.cur[n].attrbuf, TRUE, xattr_ok)
     IN  /\ ino' = e.t
         /\ lst' = IF lst.cur[n].room = 0
                   THEN [lst EXCEPT !.cur[n].pc = "idle"]
                   ELSE [lst EXCEPT
                           !.cur[n].pc = "loop",
                           !.cur[n].room = @ - 1,
                           !.cur[n].offset = lst.dirp[fi_fh(n)],
                           !.cur[n].got = Append(@, [raw |-> d_name,
                                                     dname |-> e.rec.dname])]
  /\ ListFrame

ListNext == \E n \in Listings : ListCall(n) \/ ListRead(n) \/ ListEmit(n)

SpecList == ListInit /\ [][ListNext]_vars

(***************************************************************************)
(* Properties of the name registry and of listings                         *)
(***************************************************************************)
\* some byte of s lies in 'A'..'Z'
HasUpper(s) == \E i \in 1..Len(s) : s[i] >= UPPER_A /\ s[i] <= UPPER_Z

\* the virtual path of the directory holding path
VParent(path) ==
  LET k == strrchr_slash(path, Len(path))
  IN  IF k <= 1 THEN RootPath ELSE SubSeq(path, 1, k - 1)

\* the directory a virtual path names in table t
DirAt(t, path) == Lookup(t, map_path(path, TRUE))

\* an uninterrupted listing of the directory at path, no allocation failing
WholeListing(t, path) ==
  ciopfs_readdir(t, path, DirAt(t, path), 0, Unlimited, TRUE, TRUE, xattr_ok)

\* the items of a listing of directory d that belong to object i
ItemsOf(t, d, out, i) == {k \in 1..Len(out) : DirStream(t, d)[out[k].off].ino = i}

\* the results of the handlers that create a regular file or a directory
CreateLike(t, path) ==
  {ciopfs_create(t, path, TRUE, TRUE, xattr_ok),
   ciopfs_create(t, path, FALSE, TRUE, xattr_ok),
   ciopfs_mknod(t, path, "S_IFREG", TRUE, xattr_ok),
   ciopfs_mkdir(t, path, TRUE, xattr_ok)}

\* C1 (round trip): on a store that supports the attribute, whenever
\* ciopfs_create, ciopfs_mknod or ciopfs_mkdir creates an object under a
\* virtual name N with upper case, the listing of the parent directory that
\* follows hands exactly N to the filler for that object, the parent holds
\* the entry fold(N) for it, and the call has put no entry N there.
C1_RoundTrip ==
  xattr_ok =>
    \A path \in VPaths :
      \A r \in CreateLike(ino, path) :
        LET N == orig_filename(path)
            t1 == Reap(r.t, handles)
            d == DirAt(t1, VParent(path))
            out == WholeListing(t1, VParent(path)).out
            shown == ItemsOf(t1, d, out, r.obj)
        IN  (HasUpper(N) /\ r.ret = OK /\ r.fresh) =>
              /\ d >= 1
              /\ shown # {}
              /\ \A k \in shown : out[k].dname = N /\ out[k].taken
              /\ EntryIndex(t1, d, str_fold(N)) # 0
              /\ t1[d].ents[EntryIndex(t1, d, str_fold(N))].ino = r.obj
              /\ (EntryIndex(ino, d, N) = 0 => EntryIndex(t1, d, N) = 0)

\* C1 witness: a create-like call has made an object whose recorded name has
\* upper case and whose entry is the fold of that name
C1_Witness ==
  /\ xattr_ok
  /\ last.op \in {"create", "mknod", "mkdir"}
  /\ last.ret = OK
  /\ HasUpper(ino[last.obj].attr)
  /\ \E d \in Inodes : \E k \in 1..Len(ino[d].ents) :
       /\ ino[d].ents[k].ino = last.obj
       /\ ino[d].ents[k].name = str_fold(ino[last.obj].attr)

\* an entry that is listed (no upper case) and carries a stale recorded name
Stale(t, e) ==
  /\ ~HasUpper(e.name)
  /\ t[e.ino].attr # NoName
  /\ str_fold(t[e.ino].attr) # e.name

\* C2 (staleness self-heal): on a store that supports the attribute, for an
\* entry whose recorded name does not fold to the entry's name, the next
\* listing of its directory hands the raw name to the filler and removes the
\* attribute, and a further listing hands the raw name again, removes nothing
\* for that entry and leaves the store as it is.
C2_StaleSelfHeal ==
  xattr_ok =>
    \A d \in handles, path \in VDirPaths :
      (DirAt(ino, path) = d) =>
        LET r1 == WholeListing(ino, path)
            r2 == WholeListing(r1.t, path)
        IN  \A k \in 1..Len(ino[d].ents) :
              LET e == ino[d].ents[k]
              IN  Stale(ino, e) =>
                    /\ \E j \in 1..Len(r1.out) :
                         /\ r1.out[j].off = k + 2
                         /\ r1.out[j].dname = e.name
                         /\ r1.out[j].taken
                    /\ \E j \in ItemsOf(ino, d, r1.out, e.ino) : r1.out[j].rm
                    /\ r1.t[e.ino].attr = NoName
                    /\ \E j \in 1..Len(r2.out) :
                         /\ r2.out[j].off = k + 2
                         /\ r2.out[j].dname = e.name
                    /\ \A j \in ItemsOf(ino, d, r2.out, e.ino) : ~r2.out[j].rm
                    /\ r2.t = r1.t

\* C2 witness: a listing has just removed a stale recorded name
C2_Witness ==
  /\ xattr_ok
  /\ last.op = "readdir"
  /\ last.ret = OK
  /\ last.rm
  /\ ino[last.obj].ents # <<>>

\* C3 (invisibility rule): no call of ciopfs_readdir hands an entry whose raw
\* name has upper case to the filler, whatever attribute the entry carries;
\* "." and ".." are handed over under their raw name without a lookup of the
\* recorded name, and a listing from the start hands them over first.
C3_Invisibility ==
  \A d \in handles, path \in VDirPaths :
    \A in \in ReaddirInputs(Len(DirStream(ino, d))) :
      LET r == ciopfs_readdir(ino, path, d, in[1], in[2], in[3], in[4], xattr_ok)
      IN  /\ \A k \in 1..Len(r.out) :
               /\ ~HasUpper(r.out[k].raw)
               /\ r.out[k].raw = DirStream(ino, d)[r.out[k].off].name
               /\ (r.out[k].raw \in {DotName, DotDotName} =>
                     r.out[k].dname = r.out[k].raw /\ ~r.out[k].looked)
          /\ (r.ret = OK /\ in[1] = 0 /\ in[2] = Unlimited) =>
               /\ Len(r.out) >= 2
               /\ r.out[1].raw = DotName /\ r.out[1].taken
               /\ r.out[2].raw = DotDotName /\ r.out[2].taken

\* C3 witness: a directory holding an entry with upper case in its raw name
\* and a recorded name has been listed
C3_Witness ==
  /\ last.op = "readdir"
  /\ last.ret = OK
  /\ \E k \in 1..Len(ino[last.obj].ents) :
       /\ HasUpper(ino[last.obj].ents[k].name)
       /\ ino[ino[last.obj].ents[k].ino].attr # NoName

\* C4 (reserved-key protection): ciopfs_setxattr and ciopfs_removexattr
\* called with the key "user.filename" return -EPERM and leave the backing
\* store, and with it every recorded name, as it was, for every path and value.
C4_ReservedKey ==
  \A in \in PathInputs, value \in XattrValues, present \in BOOLEAN :
    LET s == ciopfs_setxattr(ino, in[1], CIOPFS_ATTR_NAME, value, in[2], xattr_ok)
        r == ciopfs_removexattr(ino, in[1], CIOPFS_ATTR_NAME, present, in[2], xattr_ok)
    IN  /\ s.ret = "-EPERM" /\ s.t = ino
        /\ r.ret = "-EPERM" /\ r.t = ino

\* C4 witness: a setxattr of the reserved key was refused while an object
\* carries a recorded name
C4_Witness ==
  /\ last.op = "setxattr"
  /\ last.xname = CIOPFS_ATTR_NAME
  /\ last.ret = "-EPERM"
  /\ \E i \in Inodes : ino[i].attr # NoName

(***************************************************************************)
(* Properties of the privilege context                                     *)
(***************************************************************************)
\* the daemon is privileged and enter/leave are armed
SingleFlowPrivileged == single_threaded /\ cfg.root

\* the user and group ids of c are those the daemon started with
IsDaemonIds(c) ==
  /\ c.ruid = DaemonId(cfg.root).ruid /\ c.euid = DaemonId(cfg.root).euid
  /\ c.suid = DaemonId(cfg.root).suid /\ c.rgid = DaemonId(cfg.root).rgid
  /\ c.egid = DaemonId(cfg.root).egid /\ c.sgid = DaemonId(cfg.root).sgid

\* the ids the backing call of handler h is judged by are the caller's
InCaller(h, c, caller) ==
  IF Flavour(h) = "real"
  THEN c.ruid = caller.uid /\ c.rgid = caller.gid
  ELSE c.euid = caller.uid /\ c.egid = caller.gid

InFlight == {w \in Threads : thr[w].pc # "idle"}

\* C5 (privilege bracket pairing): with single_threaded set and the daemon
\* running as root, a handler with a bracket has called enter once and leave
\* not yet while its backing call is pending or done, has called leave once
\* when it returns, whether the backing call failed or not, and the ids of
\* the process are the daemon's before and after the bracket and, when no
\* identity call failed, the caller's in between.
C5_BracketPairing ==
  SingleFlowPrivileged =>
    /\ (\A w \in Threads : thr[w].pc \in {"idle", "start", "ret"}) => IsDaemonIds(id)
    /\ \A w \in Threads :
         /\ thr[w].pc = "ret" => thr[w].leaves = thr[w].enters
         /\ (Flavour(thr[w].h) # "none" /\ thr[w].pc \in {"entered", "called"}) =>
              /\ thr[w].enters = 1 /\ thr[w].leaves = 0 /\ thr[w].fired
              /\ ~thr[w].failed => InCaller(thr[w].h, id, Callers[thr[w].caller])
         /\ (Flavour(thr[w].h) # "none" /\ thr[w].pc = "ret"
               /\ thr[w].bret # "-ENOMEM") =>
              thr[w].enters = 1 /\ thr[w].leaves = 1

\* C5 witness: a handler with a bracket is about to return the error of its
\* backing call, after an enter that fired and one leave
C5_Witness ==
  /\ SingleFlowPrivileged
  /\ \E w \in Threads :
       /\ thr[w].pc = "ret" /\ thr[w].h = "access" /\ thr[w].bret = "-EACCES"
       /\ thr[w].fired /\ ~thr[w].failed
       /\ InCaller(thr[w].h, thr[w].callid, Callers[thr[w].caller])
       /\ thr[w].leaves = 1

\* C6 (full teardown): once a handler has called leave, the user ids, group
\* ids and supplementary groups of the process are those the daemon started
\* with.
C6_FullTeardown ==
  \A w \in Threads :
    (thr[w].pc = "ret" /\ thr[w].leaves = 1) => id = DaemonId(cfg.root)

\* C7 (no groups resolved means no groups): when enter fired and get_groups
\* returned 0 for the caller, the backing call ran with an empty
\* supplementary group list.
C7_NoGroupsResolved ==
  \A w \in Threads :
    (/\ thr[w].pc \in {"called", "ret"}
     /\ thr[w].fired
     /\ thr[w].callid # NoId
     /\ Len(get_groups(Callers[thr[w].caller].status, TRUE)) = 0) =>
      thr[w].callid.groups = {}

\* C8 (a failed identity change aborts the operation): when an identity call
\* of an enter that fired has failed, the handler returns a permission error
\* and its backing call has not run under ids other than the caller's.
C8_FailedEnterAborts ==
  \A w \in Threads :
    (thr[w].pc = "ret" /\ thr[w].fired /\ thr[w].failed) =>
      /\ thr[w].bret \in {"-EPERM", "-EACCES"}
      /\ \/ thr[w].callid = NoId
         \/ InCaller(thr[w].h, thr[w].callid, Callers[thr[w].caller])

\* C9 (single-flow guard): single_threaded is set only for a daemon started
\* by root with allow_other, and then "-s" is among the arguments of
\* fuse_main; unless single_threaded is set and the daemon is root the
\* credentials never change; and whenever an enter has fired and its leave
\* is still to come, or the ids are not the daemon's, at most one operation
\* is in flight.
C9_SingleFlowGuard ==
  /\ single_threaded => (cfg.root /\ cfg.allow_other)
  /\ single_threaded => fuse_args_single(cfg.user_s, single_threaded)
  /\ ~SingleFlowPrivileged =>
       /\ id = DaemonId(cfg.root)
       /\ \A w \in Threads : ~thr[w].fired
  /\ (\/ ~IsDaemonIds(id)
      \/ \E w \in Threads : thr[w].fired /\ thr[w].pc \in {"entered", "called"}) =>
       Cardinality(InFlight) <= 1

\* C9 witness: the backing call of a later request has run under a caller's
\* ids while the daemon had an idle worker left
C9_Witness ==
  /\ served >= 2
  /\ ~IsDaemonIds(id)
  /\ \E w \in Threads :
       /\ thr[w].pc = "called" /\ thr[w].fired
       /\ InCaller(thr[w].h, id, Callers[thr[w].caller])
  /\ \E u \in Threads : thr[u].pc = "idle"

\* C10 (rename moves the object and re-records its name): on a store that
\* supports the attribute, after ciopfs_rename(from, to) succeeds the object
\* is at fold(to) and, when the folds differ, no longer at fold(from); its
\* recorded name is the last segment of to; a listing of the destination
\* directory shows that segment and a listing of the source directory does
\* not show the object under its old entry.
C10_RenameRerecords ==
  xattr_ok =>
    \A from \in VPaths, to \in VPaths :
      LET r == ciopfs_rename(ino, from, to, TRUE, TRUE, xattr_ok)
          o == Lookup(ino, map_path(from, TRUE))
          f == map_path(from, TRUE)
          tt == map_path(to, TRUE)
          t1 == Reap(r.t, handles)
          dd == DirAt(t1, VParent(to))
          sd == DirAt(t1, VParent(from))
          dout == WholeListing(t1, VParent(to)).out
          sout == WholeListing(t1, VParent(from)).out
      IN  r.ret = OK =>
            /\ Lookup(t1, tt) = o
            /\ (f # tt => Lookup(t1, f) < 1)
            /\ t1[o].attr = orig_filename(to)
            /\ dd >= 1
            /\ \E k \in ItemsOf(t1, dd, dout, o) :
                 dout[k].raw = Leaf(tt) /\ dout[k].dname = orig_filename(to)
            /\ (f # tt /\ sd >= 1) =>
                 \A k \in 1..Len(sout) : sout[k].raw # Leaf(f)

\* the create-like calls that make or name the object at path
NamingOps ==
  {"create", "create_excl", "open", "open_excl", "mknod_reg", "mknod_fifo",
   "mknod_chr", "mkdir", "symlink", "rename", "link"}

\* the result of call c on table t; from is the source of rename and link
NamingCall(c, from, t, path, xok) ==
  CASE c = "create" -> ciopfs_create(t, path, FALSE, TRUE, xok)
    [] c = "create_excl" -> ciopfs_create(t, path, TRUE, TRUE, xok)
    [] c = "open" -> ciopfs_open(t, path, TRUE, FALSE, TRUE, xok)
    [] c = "open_excl" -> ciopfs_open(t, path, TRUE, TRUE, TRUE, xok)
    [] c = "mknod_reg" -> ciopfs_mknod(t, path, "S_IFREG", TRUE, xok)
    [] c = "mknod_fifo" -> ciopfs_mknod(t, path, "S_IFIFO", TRUE, xok)
    [] c = "mknod_chr" -> ciopfs_mknod(t, path, "S_IFCHR", TRUE, xok)
    [] c = "mkdir" -> ciopfs_mkdir(t, path, TRUE, xok)
    [] c = "symlink" -> ciopfs_symlink(t, LinkTarget, path, TRUE, xok)
    [] c = "rename" -> ciopfs_rename(t, from, path, TRUE, TRUE, xok)
    [] c = "link" -> ciopfs_link(t, from, path, TRUE, TRUE, xok)

\* the results of every create-like handler that makes or names the object
\* at path: create, open with O_CREAT, mknod of each file type, mkdir,
\* symlink, and rename and link with path as their destination
NamingCalls(t, path, xok) ==
  {NamingCall(c, from, t, path, xok) : c \in NamingOps, from \in VPaths}

\* C11 (Original Name recorded on every create-like operation): whenever
\* ciopfs_create, ciopfs_open with O_CREAT, ciopfs_mknod of a regular file,
\* a FIFO or a device node, ciopfs_mkdir, ciopfs_symlink, or ciopfs_rename
\* or ciopfs_link towards a destination succeeds, the handler has called the
\* registry with the caller's basename for that object, and where the store
\* accepted the call the object's attribute is that basename.
C11_NameRecorded ==
  \A path \in VPaths :
    \A r \in NamingCalls(ino, path, xattr_ok) :
      r.ret = OK =>
        /\ r.reg # NoCall
        /\ r.reg = OK => r.t[r.obj].attr = orig_filename(path)

\* the byte c in the other case, c itself when it is no ASCII letter
OtherCase(c) ==
  IF c >= UPPER_A /\ c <= UPPER_Z THEN c + CASE_OFFSET
  ELSE IF c >= UPPER_A + CASE_OFFSET /\ c <= UPPER_Z + CASE_OFFSET THEN c - CASE_OFFSET
  ELSE c

\* the spellings of path: the paths that differ from it in case only
Spellings(path) ==
  {q \in [1..Len(path) -> {path[i] : i \in 1..Len(path)}
                          \cup {OtherCase(path[i]) : i \in 1..Len(path)}] :
     \A i \in 1..Len(path) : q[i] \in {path[i], OtherCase(path[i])}}

\* the results of the handlers that make a new object at path
Makers(t, path) ==
  {ciopfs_create(t, path, TRUE, TRUE, xattr_ok),
   ciopfs_open(t, path, TRUE, FALSE, TRUE, xattr_ok),
   ciopfs_mkdir(t, path, TRUE, xattr_ok),
   ciopfs_symlink(t, LinkTarget, path, TRUE, xattr_ok)}
  \cup {ciopfs_mknod(t, path, mode, TRUE, xattr_ok) : mode \in ModeSet}

\* the path-based handlers reach object i of kind k in table t under path q
ReachedBy(t, q, i, k) ==
  /\ ciopfs_getattr(t, q, TRUE) = Done(t, i, FALSE)
  /\ k = "reg" => ciopfs_open(t, q, FALSE, FALSE, TRUE, xattr_ok).obj = i
  /\ k = "dir" => /\ ciopfs_opendir(t, q, TRUE) = Done(t, i, FALSE)
                  /\ ciopfs_rmdir(t, q, TRUE).ret = OK
                  /\ ciopfs_rmdir(t, q, TRUE).obj = i
  /\ k # "dir" => /\ ciopfs_unlink(t, q, TRUE).ret = OK
                  /\ ciopfs_unlink(t, q, TRUE).obj = i
  /\ \A to \in VPaths :
       ciopfs_rename(t, q, to, TRUE, TRUE, xattr_ok).ret = OK =>
         ciopfs_rename(t, q, to, TRUE, TRUE, xattr_ok).obj = i

\* C12 (case-insensitive resolution): map_path sends "/" to "." and every
\* other path to the fold of all that follows the leading separator; two
\* virtual paths that differ in case only translate to the same backing
\* path; and an object made under one spelling is the object getattr, open,
\* opendir, unlink, rmdir and rename reach under every other spelling.
C12_CaseInsensitive ==
  /\ map_path(RootPath, TRUE) = <<DOT>>
  /\ \A path \in VPaths :
       /\ map_path(path, TRUE) = str_fold(Tail(path))
       /\ \A q \in Spellings(path) :
            /\ map_path(q, TRUE) = map_path(path, TRUE)
            /\ \A r \in Makers(ino, path) :
                 (r.ret = OK /\ r.fresh) =>
                   ReachedBy(r.t, q, r.obj, r.t[r.obj].kind)

\* C12 witness: a file made as "/A/Bb" is stored as "a/bb", and getattr of
\* the spelling "/a/bB" finds it
C12_Witness ==
  /\ last.op = "create" /\ last.ret = OK
  /\ Lookup(ino, <<97, SLASH, 98, 98>>) = last.obj
  /\ xattr_ok /\ ino[last.obj].attr = <<66, 98>>
  /\ <<SLASH, 97, SLASH, 98, 66>> \in Spellings(<<SLASH, 65, SLASH, 66, 98>>)
  /\ ciopfs_getattr(ino, <<SLASH, 97, SLASH, 98, 66>>, TRUE).obj = last.obj

(***************************************************************************)
(* Properties of the Case Folders                                          *)
(***************************************************************************)
\* C13 (fold is idempotent and leaves no upper case): for every name n the
\* ASCII str_fold gives str_fold(str_fold(n)) = str_fold(n), and
\* str_contains_upper(str_fold(n)) is false.
C13_FoldIdempotent ==
  (fold.policy = "ascii" /\ fold.pc = "refolded") =>
    /\ fold.again = fold.out
    /\ ~fold.upper_out

\* C13 witness: "AZ" was folded to "az", and "az" was folded and tested again
C13_Witness ==
  /\ fold.policy = "ascii" /\ fold.pc = "refolded"
  /\ fold.name = <<UPPER_A, UPPER_Z>>
  /\ fold.upper
  /\ fold.out = <<UPPER_A + CASE_OFFSET, UPPER_Z + CASE_OFFSET>>

\* C14 (the upper-case test agrees with fold): under each Case Folder, ASCII,
\* GLib and ICU, str_contains_upper(name) holds exactly when str_fold(name)
\* differs from name, so that no name fold would change counts as canonical
\* and no name fold leaves alone is hidden.
C14_UpperIffFoldChanges ==
  fold.pc \in {"folded", "refolded"} =>
    (fold.upper <=> fold.out # fold.name)

\* the names a whole listing of the parent of path shows for the entry
\* fold(basename(path)) in table t
ShownAt(t, path) ==
  LET out == WholeListing(t, VParent(path)).out
  IN  {out[k].dname : k \in {j \in 1..Len(out) :
                               out[j].raw = str_fold(orig_filename(path))}}

\* the backing call of c succeeds and its registry write, if it makes one,
\* fails: the results with a write that works and with one that fails
SwallowCase(c, from, path) ==
  /\ NamingCall(c, from, ino, path, TRUE).ret = OK
  /\ NamingCall(c, from, ino, path, FALSE).reg # OK

PairFailures == {<<FALSE, TRUE>>, <<TRUE, FALSE>>, <<FALSE, FALSE>>}

\* the results of the path-based handlers on table t when map_path returns
\* NULL for a path argument
NoMemResults(t, path, xok) ==
  {ciopfs_getattr(t, path, FALSE), ciopfs_mkdir(t, path, FALSE, xok),
   ciopfs_symlink(t, LinkTarget, path, FALSE, xok),
   ciopfs_unlink(t, path, FALSE), ciopfs_rmdir(t, path, FALSE),
   ciopfs_opendir(t, path, FALSE),
   ciopfs_removexattr(t, path, OTHER_ATTR_NAME, TRUE, FALSE, xok)}
  \cup {ciopfs_create(t, path, excl, FALSE, xok) : excl \in BOOLEAN}
  \cup {ciopfs_open(t, path, creat, FALSE, FALSE, xok) : creat \in BOOLEAN}
  \cup {ciopfs_mknod(t, path, mode, FALSE, xok) : mode \in ModeSet}
  \cup {ciopfs_setxattr(t, path, OTHER_ATTR_NAME, v, FALSE, xok) : v \in XattrValues}
  \cup {ciopfs_rename(t, path, to, a[1], a[2], xok) : to \in VPaths, a \in PairFailures}
  \cup {ciopfs_link(t, path, to, a[1], a[2], xok) : to \in VPaths, a \in PairFailures}

\* C16 (a failed translation is reported before anything happens): whenever
\* map_path returns no result for a path argument of a handler, either
\* argument of rename and link included, the handler returns -ENOMEM, has
\* not entered the caller's identity, has made no backing call, and leaves
\* the store and the registry as they were.
C16_NoMemBeforeAnything ==
  /\ \A path \in VPaths :
       \A r \in NoMemResults(ino, path, xattr_ok) : r = Fail(ino, "-ENOMEM")
  /\ \A path \in VDirPaths, d \in {i \in Inodes : ino[i].kind = "dir"} :
       ciopfs_readdir(ino, path, d, 0, Unlimited, FALSE, TRUE, xattr_ok)
         = [ret |-> "-ENOMEM", out |-> <<>>, t |-> ino]
  /\ \A w \in Threads :
       thr[w].bret = "-ENOMEM" =>
         /\ thr[w].pc = "ret"
         /\ thr[w].enters = 0 /\ thr[w].leaves = 0 /\ ~thr[w].fired
         /\ thr[w].callid = NoId

\* C16 witness: in a daemon whose enter would switch identities, the mknod
\* handler is about to return -ENOMEM for a path map_path did not translate
C16_Witness ==
  /\ SingleFlowPrivileged
  /\ IsDaemonIds(id)
  /\ \E w \in Threads :
       /\ thr[w].h = "mknod" /\ thr[w].pc = "ret" /\ thr[w].bret = "-ENOMEM"
       /\ enter_fires(thr[w].h, id, single_threaded)
       /\ ciopfs_mknod(ino, <<SLASH, UPPER_A>>, "S_IFREG", FALSE, xattr_ok).ret = "-ENOMEM"
       /\ ciopfs_mknod(ino, <<SLASH, UPPER_A>>, "S_IFREG", TRUE, xattr_ok).ret = OK

(***************************************************************************)
(* Properties of listings taken step by step                               *)
(***************************************************************************)
\* an entry ciopfs_readdir does not skip
VisibleEntry(e) == ~HasUpper(e.name)

\* the raw names of the entries among the first k of the root's stream that
\* a listing hands over
VisibleNames(k) ==
  LET v == SelectSeq(SubSeq(DirStream(ino, ROOT), 1, k), VisibleEntry)
  IN  [j \in 1..Len(v) |-> v[j].name]

\* the raw names of the entries listing n has handed over so far
RawsGot(n) == [j \in 1..Len(lst.cur[n].got) |-> lst.cur[n].got[j].raw]

\* C17 (concurrent listings keep their own cursors): with two listings of
\* one directory under way, each on its own stream, and their steps
\* interleaved in any order, each listing hands over every entry without
\* upper case exactly once and in stream order: none skipped, none twice.
C17_IndependentCursors ==
  \A n \in Listings :
    /\ RawsGot(n) = VisibleNames(lst.cur[n].offset)
    /\ lst.cur[n].pc = "done" => RawsGot(n) = VisibleNames(Len(DirStream(ino, ROOT)))

\* C17 witness: two listings of a directory with a skipped entry have both
\* come to the end, and the stale name one of them removed on the way made
\* them show different names for the same entries
C17_Witness ==
  /\ \A n \in Listings : lst.cur[n].pc = "done" /\ Len(lst.cur[n].got) = 4
  /\ \E k \in 1..Len(DirStream(ino, ROOT)) : HasUpper(DirStream(ino, ROOT)[k].name)
  /\ RawsGot(1) = RawsGot(2)
  /\ lst.cur[1].got # lst.cur[2].got

\* the display names of a sequence of handed-over entries
DisplayNames(items) == [j \in 1..Len(items) |-> items[j].dname]

\* C19 (a resumed listing equals an uninterrupted one): a single listing of
\* a directory nothing else touches, whose calls end whenever the filler
\* reports a full buffer and resume at the offset of the last accepted
\* entry, hands over the display names of one uninterrupted listing, in
\* order: a refused entry is handed over once, by the next call, also when
\* skipped entries lie before it, and a call that is not cut short ends
\* when the stream is exhausted.
C19_ResumedListing ==
  lst.cur[2].pc = "off" =>
    LET c == lst.cur[1]
        want == DisplayNames(lst.whole)
    IN  /\ Len(c.got) <= Len(want)
        /\ DisplayNames(c.got) = SubSeq(want, 1, Len(c.got))
        /\ c.pc = "done" =>
             /\ DisplayNames(c.got) = want
             /\ lst.dirp[fi_fh(1)] = Len(DirStream(ino, ROOT))
        /\ (c.pc = "idle" /\ c.calls > 0) => c.room = 0

\* C19 witness: a listing that took three calls has come to the end; the
\* directory holds a skipped entry and an entry shown under its Original Name
C19_Witness ==
  /\ lst.cur[2].pc = "off"
  /\ lst.cur[1].pc = "done" /\ lst.cur[1].calls = 3
  /\ DisplayNames(lst.cur[1].got) = DisplayNames(lst.whole)
  /\ \E k \in 1..Len(DirStream(ino, ROOT)) : HasUpper(DirStream(ino, ROOT)[k].name)
  /\ \E j \in 1..Len(lst.cur[1].got) : HasUpper(lst.cur[1].got[j].dname)

(***************************************************************************)
(* Properties of the order of the identity calls                           *)
(***************************************************************************)
\* the supplementary groups enter asks for, or those in place when
\* get_groups found none
WantedGroups(c, caller) ==
  IF Len(get_groups(caller.status, TRUE)) > 0
  THEN Range(get_groups(caller.status, TRUE)) ELSE c.groups

\* the effective bracket from identity c for caller, one call at a time:
\* every call is granted, and enter and leave are these calls in this order
EffectiveStepsGranted(c, caller) ==
  LET c1 == install_groups(c, get_groups(caller.status, TRUE), "none")
      c2 == setegid(c1, caller.gid, TRUE)
      c3 == seteuid(c2, caller.uid, TRUE)
      l1 == seteuid(c3, c3.ruid, TRUE)
      l2 == setegid(l1, l1.rgid, TRUE)
  IN  /\ c1.groups = WantedGroups(c, caller)
      /\ c2.egid = caller.gid /\ c2.euid = 0
      /\ c3.euid = caller.uid
      /\ c3 = enter_user_context_effective(c, single_threaded, caller, "none")
      /\ l1.euid = c.ruid /\ l1.egid = caller.gid
      /\ l2.egid = c.rgid
      /\ l2 = leave_user_context_effective(c3, single_threaded)

\* the same for the real bracket of ciopfs_access
RealStepsGranted(c, caller) ==
  LET c1 == install_groups(c, get_groups(caller.status, TRUE), "none")
      c2 == setregid(c1, caller.gid, KEEP, TRUE)
      c3 == setreuid(c2, caller.uid, KEEP, TRUE)
      l1 == setuid(c3, c3.euid, TRUE)
      l2 == setgid(l1, l1.egid, TRUE)
  IN  /\ c1.groups = WantedGroups(c, caller)
      /\ c2.rgid = caller.gid /\ c2.ruid = c.ruid
      /\ c3.ruid = caller.uid /\ c3.euid = 0
      /\ c3 = enter_user_context_real(c, single_threaded, caller, "none")
      /\ l1.ruid = c.euid /\ l1.rgid = caller.gid
      /\ l2.rgid = c.egid
      /\ l2 = leave_user_context_real(c3, single_threaded)

\* C18 (order of the identity calls): enter installs the supplementary
\* groups first, then the gid, then the uid, and leave restores the uid
\* before the gid; each of these calls is made while the process holds the
\* privilege it needs, so for every caller uid and gid each call of enter
\* and of leave is granted.
C18_StepsPermitted ==
  \A w \in Threads :
    (thr[w].pc = "start" /\ enter_fires(thr[w].h, id, single_threaded)) =>
      \A k \in DOMAIN Callers :
        IF Flavour(thr[w].h) = "effective"
        THEN EffectiveStepsGranted(id, Callers[k])
        ELSE RealStepsGranted(id, Callers[k])

\* C18 witness: getattr ran its backing call with the uid, gid and groups
\* of the first caller, and after leave the process has the daemon's uid
\* and gid again
C18_Witness ==
  \E w \in Threads :
    /\ thr[w].h = "getattr" /\ thr[w].pc = "ret" /\ thr[w].caller = 1
    /\ thr[w].fired /\ ~thr[w].failed /\ thr[w].leaves = 1
    /\ thr[w].callid.euid = Callers[1].uid
    /\ thr[w].callid.egid = Callers[1].gid
    /\ thr[w].callid.groups = {7, 8}
    /\ IsDaemonIds(id)

\* C20 (a hard link keeps both names): on a store that holds attributes,
\* after ciopfs_link(from, to) has succeeded with fold(from) # fold(to), the
\* listing that follows presents the existing entry under the name it was
\* presented under before, presents the new entry under basename(to), and
\* removes no attribute of the object.
C20_LinkKeepsBothNames ==
  xattr_ok =>
    \A from \in VPaths, to \in VPaths :
      (/\ str_fold(from) # str_fold(to)
       /\ ciopfs_link(ino, from, to, TRUE, TRUE, xattr_ok).ret = OK) =>
        LET r == ciopfs_link(ino, from, to, TRUE, TRUE, xattr_ok)
            t1 == Reap(r.t, handles)
        IN  /\ ShownAt(t1, from) = ShownAt(ino, from)
            /\ ShownAt(t1, to) = {orig_filename(to)}
            /\ WholeListing(t1, VParent(from)).t[r.obj].attr = orig_filename(to)
            /\ WholeListing(t1, VParent(to)).t[r.obj].attr = orig_filename(to)

(***************************************************************************)
(* Create-like handlers whose backing call fails                           *)
(***************************************************************************)
\* the backing call handler c makes for path, with both translations done
BackingCall(c, from, t, path) ==
  LET p == map_path(path, TRUE) IN
  CASE c = "create" -> sys_open(t, p, TRUE, FALSE)
    [] c \in {"create_excl", "open_excl", "mknod_reg"} -> sys_open(t, p, TRUE, TRUE)
    [] c = "open" -> sys_open(t, p, TRUE, FALSE)
    [] c = "mknod_fifo" -> sys_mknod(t, p, "fifo")
    [] c = "mknod_chr" -> sys_mknod(t, p, "chr")
    [] c = "mkdir" -> sys_mkdir(t, p)
    [] c = "symlink" -> sys_symlink(t, LinkTarget, p)
    [] c = "rename" -> sys_rename(t, map_path(from, TRUE), p)
    [] c = "link" -> sys_link(t, map_path(from, TRUE), p)

\* the names a listing of directory path shows
ShownIn(t, path, xok) ==
  LET d == ciopfs_opendir(t, path, TRUE)
  IN  IF d.ret # OK THEN <<>>
      ELSE ciopfs_readdir(t, path, d.obj, 0, Unlimited, TRUE, TRUE, xok).out

\* handler result r reports the error of the failed backing call b and
\* leaves the attributes and the listings of table t as they were
KeepsRegistry(r, b, t, xok) ==
  /\ r.ret = b.ret
  /\ \A i \in Inodes : r.t[i].attr = t[i].attr
  /\ \A d \in VDirPaths : ShownIn(r.t, d, xok) = ShownIn(t, d, xok)

\* C21 (a failed create-like operation leaves the registry unchanged):
\* whenever the backing call of ciopfs_create, ciopfs_open, ciopfs_mknod,
\* ciopfs_mkdir, ciopfs_symlink, ciopfs_rename or ciopfs_link fails, the
\* handler returns the error of that call, no attribute of any object has
\* another value than before, and every listing shows the names it showed
\* before.
C21_FailedCreateKeepsRegistry ==
  \A path \in VPaths, c \in NamingOps :
    \A from \in IF c \in {"rename", "link"} THEN VPaths ELSE {path} :
      BackingCall(c, from, ino, path).ret # OK =>
        KeepsRegistry(NamingCall(c, from, ino, path, xattr_ok),
                      BackingCall(c, from, ino, path), ino, xattr_ok)

\* C21 witness: the object stored as "a" was made as "/a" and is listed as
\* "a"; mkdir of "/A" fails with -EEXIST
C21_Witness ==
  /\ xattr_ok
  /\ last.op \in {"create", "mknod", "mkdir"} /\ last.ret = OK
  /\ Lookup(ino, <<97>>) = last.obj
  /\ ino[last.obj].attr = <<97>>
  /\ ciopfs_mkdir(ino, <<SLASH, UPPER_A>>, TRUE, xattr_ok).ret = "-EEXIST"
  /\ sys_mkdir(ino, <<97>>).ret = "-EEXIST"

(***************************************************************************)
(* What a listing changes                                                  *)
(***************************************************************************)
\* Listing result r of table t under backing path p changed no entry and no
\* kind; an attribute that changed was removed, and one of the entries handed
\* to the filler names its object under p with a raw name other than the
\* fold of the stored value, or is the entry whose fold could not be
\* computed (foldok = FALSE: the first fold of the call)
OnlyStaleRemoved(r, t, p, foldok) ==
  /\ \A i \in Inodes : r.t[i].kind = t[i].kind /\ r.t[i].ents = t[i].ents
  /\ \A i \in Inodes :
       r.t[i].attr # t[i].attr =>
         /\ r.t[i].attr = NoName
         /\ \E k \in 1..Len(r.out) :
              /\ r.out[k].raw \notin {DotName, DotDotName}
              /\ Lookup(t, p \o <<SLASH>> \o r.out[k].raw) = i
              /\ \/ str_fold(t[i].attr) # r.out[k].raw
                 \/ ~foldok /\ \A j \in 1..(k - 1) : r.out[j].attr = NoName

\* C22 (listing changes nothing but stale attributes): a call of
\* ciopfs_readdir, from any offset and with any room in the filler's buffer,
\* leaves every entry and every kind of the store as it was and writes no
\* attribute value; an attribute it removes is the Original Name of an entry
\* it listed whose raw name differs from the fold of the stored value, or
\* whose fold could not be computed; so an attribute whose fold is the raw
\* name of each entry listed for its object is left in place.
C22_ListingOnlyRemovesStale ==
  \A dp \in handles, path \in VDirPaths :
    \A in \in ReaddirInputs(Len(DirStream(ino, dp))) :
      OnlyStaleRemoved(ciopfs_readdir(ino, path, dp, in[1], in[2], in[3], in[4],
                                      xattr_ok),
                       ino, map_path(path, TRUE), in[4])

\* C22 witness: a listing has removed a recorded name, and the directory it
\* listed still holds an entry with the valid name it had, next to the entry
\* that lost its name
C22_Witness ==
  /\ xattr_ok
  /\ last.op = "readdir" /\ last.ret = OK /\ last.rm
  /\ \E k \in 1..Len(ino[last.obj].ents) :
       LET e == ino[last.obj].ents[k]
       IN  /\ HasUpper(ino[e.ino].attr)
           /\ str_fold(ino[e.ino].attr) = e.name
  /\ \E k \in 1..Len(ino[last.obj].ents) :
       /\ ~HasUpper(ino[last.obj].ents[k].name)
       /\ ino[ino[last.obj].ents[k].ino].attr = NoName

(***************************************************************************)
(* The buffer of the ASCII str_fold                                        *)
(***************************************************************************)
\* the size of the buffer str_fold allocates: malloc(strlen(src))
str_fold_dest_size(src) == Len(src)

\* the offsets from dest that str_fold stores to: *t = tolower(*src) for
\* each byte of src, then *t = '\0' where the loop stopped
str_fold_stores(src) == {i - 1 : i \in 1..Len(src)} \cup {Len(src)}

\* C23 (fold stays inside its buffer): for every name of every length, the
\* empty name included, the ASCII str_fold writes no more bytes, terminator
\* included, than the size of the buffer it allocated, and every byte it
\* writes lies inside that buffer.
C23_FoldInsideBuffer ==
  (fold.policy = "ascii" /\ fold.pc \in {"folded", "refolded"}) =>
    /\ Cardinality(str_fold_stores(fold.name)) <= str_fold_dest_size(fold.name)
    /\ \A off \in str_fold_stores(fold.name) : off < str_fold_dest_size(fold.name)

=============================================================================
